---- MODULE Spec2Model ----
(***************************************************************************)
(* Intent Governance Kernel: the hook engine (pre/post interception), the  *)
(* gatekeeper, optimistic-lock, scope-enforcement, authorization,          *)
(* intent-update and trace-writer hooks, and the tasks that drive tool     *)
(* calls through them against a shared workspace.                          *)
(*                                                                         *)
(* Representation of values                                                *)
(*   - a path or a scope pattern is a sequence of one-character strings;   *)
(*   - a file content is the non-empty sequence of its lines (the JS       *)
(*     string is the lines joined by "\n"), so "" is <<"">>;               *)
(*   - an optional parameter is None (undefined) or Some(v);               *)
(*   - a content hash is the pair <<"sha256:", content>>: SHA-256 is       *)
(*     modelled as collision free; the empty string hash value is <<>>.    *)
(***************************************************************************)
EXTENDS Integers, Sequences, FiniteSets, TLC

VARIABLES
    hooks,            \* HookEngine.hooks: sequence of registered hooks [id, inst]
    regLog,           \* every hook handed to registerHook so far, in call order
    files,            \* workspace files: relative path -> content or Absent
    registry,         \* .orchestration/active_intents.yaml
    ledger,           \* .orchestration/agent_trace.jsonl: sequence of lines
    ignoreFile,       \* .orchestration/.intentignore
    intentIgnoreCache,\* AuthorizationHook.intentIgnoreCache
    intentIgnorePath, \* AuthorizationHook.intentIgnorePath
    activeIntentId,   \* task.activeIntentId, per task
    pc,               \* per task: position of its current tool call
    block,            \* per task: the ToolUse block handed to the engine
    currentBlock,     \* per task: runPreHooks' currentBlock
    hookIdx,          \* per task: index of the next hook of the running phase
    preResult,        \* per task: HookResult returned by runPreHooks
    callsLeft,        \* per task: tool calls the driver may still dispatch
    toolCalls,        \* the tool calls the LLM driver may emit in this run
    trail,            \* per task: hooks invoked for the current call, in order
    ioLog,            \* per task: I/O done by the hooks for the current call
    execLog,          \* per task: record of the current call's tool execution
    postTrail,        \* per task: post-hooks invoked for the current call, in order
    workspace,        \* the host: getWorkspacePath() and each workspace's .intentignore
    loadFrame,        \* per task: its call of AuthorizationHook.loadIntentIgnore
    cacheGhost,       \* how the cached bypass set came about
    evaluated,        \* a call of one of the pure helpers: arguments and result
    claudeMd,         \* <workspace>/CLAUDE.md: None when absent, or its text
    lessonLog,        \* the record_lesson calls so far and the last one's outcome
    updateData        \* per task: the registry the Intent Update hook parsed and is about to write

vars == <<hooks, regLog, files, registry, ledger, ignoreFile, intentIgnoreCache,
          intentIgnorePath, activeIntentId, pc, block, currentBlock, hookIdx,
          preResult, callsLeft, toolCalls, trail, ioLog, execLog, postTrail,
          workspace, loadFrame, cacheGhost, evaluated, claudeMd, lessonLog, updateData>>

\* the variables of the record_lesson tool
lessonVars == <<claudeMd, lessonLog>>

updateVars == <<updateData>>

\* the variables of the step-by-step bypass-list load
authVars == <<workspace, loadFrame, cacheGhost>>

----------------------------------------------------------------------------
(* Bounds *)

MaxCalls == 2

----------------------------------------------------------------------------
(* Optional values and strings *)

None == <<>>
Some(v) == <<v>>
IsSome(o) == Len(o) = 1
Get(o) == o[1]

\* a ?? b
Coalesce(a, b) == IF IsSome(a) THEN a ELSE b

EmptyStr == <<>>

\* s.replace(/\\/g, "/")
ToPosix(s) == [i \in DOMAIN s |-> IF s[i] = "\\" THEN "/" ELSE s[i]]

Drop(s, k) == SubSeq(s, k + 1, Len(s))

StartsWith(s, p) == Len(p) <= Len(s) /\ SubSeq(s, 1, Len(p)) = p

RECURSIVE SplitSlash(_)
\* s.split("/") without the empty segments
SplitSlash(s) ==
    IF s = <<>> THEN <<>>
    ELSE IF s[1] = "/" THEN SplitSlash(Tail(s))
    ELSE LET n == CHOOSE k \in 1..Len(s) :
                    /\ \A i \in 1..k : s[i] # "/"
                    /\ (k = Len(s) \/ s[k + 1] = "/")
         IN <<SubSeq(s, 1, n)>> \o SplitSlash(Drop(s, n))

RECURSIVE JoinSlash(_)
JoinSlash(segs) ==
    IF segs = <<>> THEN <<>>
    ELSE IF Len(segs) = 1 THEN segs[1]
    ELSE segs[1] \o <<"/">> \o JoinSlash(Tail(segs))

----------------------------------------------------------------------------
(* node:path (posix) *)

\* getWorkspacePath()
WorkspaceRoot == <<"/", "w">>

DotSeg == <<".">>
DotDotSeg == <<".", ".">>

\* path.isAbsolute(p)
IsAbsolute(p) == Len(p) > 0 /\ p[1] = "/"

RECURSIVE NormalizeSegs(_, _, _)
\* resolution of "." and ".." segments, as path.normalize does
NormalizeSegs(segs, acc, absolute) ==
    IF segs = <<>> THEN acc
    ELSE LET s == Head(segs)
             rest == Tail(segs)
         IN IF s = DotSeg THEN NormalizeSegs(rest, acc, absolute)
            ELSE IF s = DotDotSeg
                 THEN IF Len(acc) > 0 /\ acc[Len(acc)] # DotDotSeg
                      THEN NormalizeSegs(rest, SubSeq(acc, 1, Len(acc) - 1), absolute)
                      ELSE IF absolute
                           THEN NormalizeSegs(rest, acc, absolute)
                           ELSE NormalizeSegs(rest, Append(acc, s), absolute)
            ELSE NormalizeSegs(rest, Append(acc, s), absolute)

\* the normalized segments of an absolute path
AbsSegs(p) == NormalizeSegs(SplitSlash(p), <<>>, TRUE)

\* path.join(a, b)
PathJoin(a, b) ==
    LET joined == a \o <<"/">> \o b
        segs == NormalizeSegs(SplitSlash(joined), <<>>, IsAbsolute(joined))
    IN IF IsAbsolute(joined) THEN <<"/">> \o JoinSlash(segs) ELSE JoinSlash(segs)

RECURSIVE CommonPrefixLen(_, _)
CommonPrefixLen(a, b) ==
    IF a = <<>> \/ b = <<>> \/ Head(a) # Head(b) THEN 0
    ELSE 1 + CommonPrefixLen(Tail(a), Tail(b))

\* path.relative(from, to), both absolute
PathRelative(from, to) ==
    LET f == AbsSegs(from)
        t == AbsSegs(to)
        n == CommonPrefixLen(f, t)
        ups == [i \in 1..(Len(f) - n) |-> DotDotSeg]
    IN JoinSlash(ups \o Drop(t, n))

\* the absolute path a tool or hook opens for a raw path parameter
ResolveAbs(rawFilePath) ==
    IF IsAbsolute(rawFilePath) THEN rawFilePath ELSE PathJoin(WorkspaceRoot, rawFilePath)

\* the workspace file an absolute path denotes (the file system resolves
\* "." and ".." itself), as the key of that file in the workspace
Denoted(absPath) == PathRelative(WorkspaceRoot, absPath)

Absent == <<>>

\* content of the file at an absolute path, or Absent
FileAt(fs, absPath) ==
    IF Denoted(absPath) \in DOMAIN fs THEN fs[Denoted(absPath)] ELSE Absent

\* fileExistsAtPath(absPath)
fileExistsAtPath(fs, absPath) == FileAt(fs, absPath) # Absent

----------------------------------------------------------------------------
(* SpatialHasher *)

HASH_PREFIX == "sha256:"

\* hashContent(content): SHA-256 taken as injective on contents
hashContent(content) == <<HASH_PREFIX, content>>

----------------------------------------------------------------------------
(* ScopeEnforcementHook.matchesScope *)

\* the number of "?" the pattern starts with, up to n
LeadingQuestionMarks(p, n) ==
    IF n >= 2 /\ Len(p) >= 2 /\ p[1] = "?" /\ p[2] = "?" THEN 2
    ELSE IF n >= 1 /\ Len(p) >= 1 /\ p[1] = "?" THEN 1
    ELSE 0

RECURSIVE GlobTokens(_)
\* regexStr as the terms the RegExp parser reads: the atom "**" (.*), "*"
\* ([^/]*) or a character (the characters of the first replace escaped, so
\* literal), and whether a "?" after it makes it optional. "?" is not among
\* the characters the first replace escapes: after a character it is the
\* quantifier {0,1} and a second one makes that lazy; after .* or [^/]* one
\* "?" makes the star lazy. A "?" left over is a term of its own.
GlobTokens(p) ==
    IF p = <<>> THEN <<>>
    ELSE LET n == IF Len(p) >= 2 /\ p[1] = "*" /\ p[2] = "*" THEN 2 ELSE 1
             atom == IF n = 2 THEN "**" ELSE p[1]
             q == IF atom = "?" THEN 0
                  ELSE LeadingQuestionMarks(Drop(p, n),
                                            IF atom \in {"*", "**"} THEN 1 ELSE 2)
         IN <<[atom |-> atom, optional |-> q >= 1 /\ atom \notin {"*", "**"}]>>
            \o GlobTokens(Drop(p, n + q))

\* new RegExp(`^${regexStr}$`) does not throw a SyntaxError: no "?" is left
\* with nothing to repeat
RegexValid(toks) == \A i \in DOMAIN toks : toks[i].atom # "?"

RECURSIVE RegexFullMatch(_, _)
\* new RegExp(`^${regexStr}$`).test(s)
RegexFullMatch(toks, s) ==
    IF toks = <<>> THEN s = <<>>
    ELSE IF Head(toks).atom = "**"
         THEN \E k \in 0..Len(s) : RegexFullMatch(Tail(toks), Drop(s, k))
    ELSE IF Head(toks).atom = "*"
         THEN \E k \in 0..Len(s) :
                 /\ \A i \in 1..k : s[i] # "/"
                 /\ RegexFullMatch(Tail(toks), Drop(s, k))
    ELSE \/ /\ Head(toks).optional
            /\ RegexFullMatch(Tail(toks), s)
         \/ /\ s # <<>>
            /\ Head(s) = Head(toks).atom
            /\ RegexFullMatch(Tail(toks), Tail(s))

\* the call throws: the strings differ and the RegExp constructor rejects
\* regexStr
matchesScope_throws(filePath, pattern) ==
    /\ ToPosix(filePath) # ToPosix(pattern)
    /\ ~RegexValid(GlobTokens(ToPosix(pattern)))

\* the value matchesScope returns (when it does not throw)
matchesScope(filePath, pattern) ==
    LET normalizedFile == ToPosix(filePath)
        normalizedPattern == ToPosix(pattern)
        dirPattern == IF Len(normalizedPattern) > 0
                         /\ normalizedPattern[Len(normalizedPattern)] = "/"
                      THEN normalizedPattern
                      ELSE normalizedPattern \o <<"/">>
    IN \/ normalizedFile = normalizedPattern
       \/ RegexFullMatch(GlobTokens(normalizedPattern), normalizedFile)
       \/ StartsWith(normalizedFile, dirPattern)

----------------------------------------------------------------------------
(* CommandClassifier *)

SAFE_TOOLS ==
    {"read_file", "list_files", "search_files", "codebase_search",
     "ask_followup_question", "attempt_completion", "read_command_output",
     "select_active_intent", "update_todo_list"}

DESTRUCTIVE_TOOLS ==
    {"write_to_file", "apply_diff", "edit", "search_and_replace",
     "search_replace", "edit_file", "apply_patch", "execute_command",
     "use_mcp_tool", "access_mcp_resource", "switch_mode", "new_task",
     "generate_image", "run_slash_command", "skill"}

\* a classifier that takes every tool outside DESTRUCTIVE_TOOLS for safe
classifyCommand_unknownSafe(toolName) ==
    IF toolName \in DESTRUCTIVE_TOOLS THEN "DESTRUCTIVE" ELSE "SAFE"

\* a classifier that takes every tool outside SAFE_TOOLS for destructive
classifyCommand_unknownDestructive(toolName) ==
    IF toolName \in SAFE_TOOLS THEN "SAFE" ELSE "DESTRUCTIVE"

classifyCommand(toolName) ==
    IF toolName \in SAFE_TOOLS THEN "SAFE"
    ELSE IF toolName \in DESTRUCTIVE_TOOLS THEN "DESTRUCTIVE"
    ELSE "UNKNOWN"

\* task.activeIntentId when no intent was selected
Undefined == "undefined"

\* JSON null
JsonNull == "null"

DefaultRecoveryHint ==
    [tpl |-> "Please try a different approach that does not require this action, ask the user for guidance, or request scope expansion via select_active_intent."]

\* a buildRejectionError that always gives the default hint
buildRejectionError_defaultHint(code, message, toolName, intentId, recoveryHint) ==
    [error |-> "TOOL_REJECTED",
     code |-> code,
     tool |-> toolName,
     intent_id |-> IF intentId = Undefined THEN JsonNull ELSE intentId,
     message |-> message,
     recovery_hint |-> DefaultRecoveryHint]

\* buildRejectionError: the payload as the JSON object it serializes.
\* message and recoveryHint are template records: the fixed text (tpl) and
\* the values interpolated into it.
buildRejectionError(code, message, toolName, intentId, recoveryHint) ==
    [error |-> "TOOL_REJECTED",
     code |-> code,
     tool |-> toolName,
     intent_id |-> IF intentId = Undefined THEN JsonNull ELSE intentId,
     message |-> message,
     recovery_hint |-> IF IsSome(recoveryHint) THEN Get(recoveryHint)
                       ELSE DefaultRecoveryHint]


----------------------------------------------------------------------------
(* ToolUse blocks and HookResult *)

\* nativeArgs?.field
Native(blk, field) ==
    IF IsSome(blk.nativeArgs) THEN Get(blk.nativeArgs)[field] ELSE None

\* JS truthiness of an optional path or hash ("" is <<>>)
Truthy(o) == IsSome(o) /\ Get(o) # EmptyStr

EmptyContent == <<"">>

\* JS truthiness of an optional content ("" is the single empty line)
TruthyContent(o) == IsSome(o) /\ Get(o) # EmptyContent

\* JS truthiness of an optional identifier string
TruthyId(o) == IsSome(o) /\ Get(o) # ""

NoError == [none |-> TRUE]

\* { blocked: false }
Pass(io) ==
    [blocked |-> FALSE, errorMessage |-> NoError, transformedBlock |-> None, io |-> io]

\* { blocked: true, errorMessage }
Blocked(errorMessage, io) ==
    [blocked |-> TRUE, errorMessage |-> errorMessage, transformedBlock |-> None, io |-> io]

\* the machine code of a result's rejection payload, "" when it has none
CodeOf(result) ==
    IF "code" \in DOMAIN result.errorMessage THEN result.errorMessage.code ELSE ""

----------------------------------------------------------------------------
(* IntentGatekeeperHook *)

sideEffectTools ==
    {"write_to_file", "apply_diff", "execute_command", "insert_content",
     "search_and_replace", "browser_action", "use_mcp_tool", "switch_mode",
     "new_task"}

GovernanceError ==
    [text |-> "GOVERNANCE ERROR: You must call select_active_intent with a valid Intent ID before using any other tools. Please call select_active_intent first."]

\* a gatekeeper that blocks the listed tools whether or not an intent is set
IntentGatekeeperHook_onPreExecute_always(intentId, blk) ==
    IF blk.name \in sideEffectTools
    THEN Blocked(GovernanceError, {})
    ELSE Pass({})

IntentGatekeeperHook_onPreExecute(intentId, blk) ==
    IF blk.name \in sideEffectTools /\ intentId = Undefined
    THEN Blocked(GovernanceError, {})
    ELSE Pass({})

----------------------------------------------------------------------------
(* OptimisticLockHook *)

writeTools ==
    {"write_to_file", "apply_diff", "edit", "search_and_replace",
     "search_replace", "edit_file", "apply_patch"}

\* an expected hash read from params first, native_args second
LockExpectedHash_paramsFirst(blk) ==
    Coalesce(blk.params.expected_hash, Native(blk, "expected_hash"))

\* nativeArgs?.expected_hash ?? params.expected_hash ?? null
LockExpectedHash(blk) ==
    Coalesce(Native(blk, "expected_hash"), blk.params.expected_hash)

\* nativeArgs?.path ?? params.path ?? params.file_path ?? ""
LockRawFilePath(blk) ==
    LET p == Coalesce(Coalesce(Native(blk, "path"), blk.params.path),
                      blk.params.file_path)
    IN IF IsSome(p) THEN Get(p) ELSE EmptyStr

\* a hook that treats an unreadable file as stale
OptimisticLockHook_onPreExecute_blockUnreadable(blk, fs, readOk) ==
    IF blk.name \notin writeTools THEN Pass({})
    ELSE LET expectedHash == LockExpectedHash(blk)
             rawFilePath == LockRawFilePath(blk)
             absPath == ResolveAbs(rawFilePath)
             relPath == IF IsAbsolute(rawFilePath)
                        THEN ToPosix(PathRelative(WorkspaceRoot, rawFilePath))
                        ELSE rawFilePath
             currentHash == hashContent(FileAt(fs, absPath))
         IN IF ~Truthy(expectedHash) THEN Pass({})
            ELSE IF rawFilePath = EmptyStr THEN Pass({})
            ELSE IF ~fileExistsAtPath(fs, absPath)
                 THEN IF Get(expectedHash) # EmptyStr
                      THEN Blocked(buildRejectionError("STALE_FILE",
                                     [tpl |-> "File '{path}' no longer exists. Re-read to verify before writing.",
                                      path |-> rawFilePath],
                                     blk.name, Undefined,
                                     Some([tpl |-> "The file you expected to exist at '{path}' no longer exists. It may have been deleted by another agent. Check with read_file or list_files and update your approach.",
                                           path |-> rawFilePath])),
                                   {"lock:exists"})
                      ELSE Pass({"lock:exists"})
            ELSE IF ~readOk
                 THEN Blocked(buildRejectionError("STALE_FILE",
                                [tpl |-> "File '{path}' was modified since you last read it. Your version is stale.",
                                 path |-> relPath],
                                blk.name, Undefined, None),
                              {"lock:exists", "lock:readFile", "lock:readFailed"})
            ELSE IF currentHash # Get(expectedHash)
                 THEN Blocked(buildRejectionError("STALE_FILE",
                                [tpl |-> "File '{path}' was modified since you last read it. Your version is stale.",
                                 path |-> relPath],
                                blk.name, Undefined,
                                Some([tpl |-> "Re-read the file '{path}' to get the latest content and its current hash, then retry your write using the new content as the base. The current hash is: {hash}",
                                      path |-> relPath,
                                      hash |-> currentHash])),
                              {"lock:exists", "lock:readFile"})
            ELSE Pass({"lock:exists", "lock:readFile"})

\* readOk: whether fs.readFile of the target succeeds
OptimisticLockHook_onPreExecute(blk, fs, readOk) ==
    IF blk.name \notin writeTools THEN Pass({})
    ELSE LET expectedHash == LockExpectedHash(blk)
             rawFilePath == LockRawFilePath(blk)
             absPath == ResolveAbs(rawFilePath)
             relPath == IF IsAbsolute(rawFilePath)
                        THEN ToPosix(PathRelative(WorkspaceRoot, rawFilePath))
                        ELSE rawFilePath
             currentHash == hashContent(FileAt(fs, absPath))
         IN IF ~Truthy(expectedHash) THEN Pass({})
            ELSE IF rawFilePath = EmptyStr THEN Pass({})
            ELSE IF ~fileExistsAtPath(fs, absPath)
                 THEN IF Get(expectedHash) # EmptyStr
                      THEN Blocked(buildRejectionError("STALE_FILE",
                                     [tpl |-> "File '{path}' no longer exists. Re-read to verify before writing.",
                                      path |-> rawFilePath],
                                     blk.name, Undefined,
                                     Some([tpl |-> "The file you expected to exist at '{path}' no longer exists. It may have been deleted by another agent. Check with read_file or list_files and update your approach.",
                                           path |-> rawFilePath])),
                                   {"lock:exists"})
                      ELSE Pass({"lock:exists"})
            ELSE IF ~readOk THEN Pass({"lock:exists", "lock:readFile", "lock:readFailed"})
            ELSE IF currentHash # Get(expectedHash)
                 THEN Blocked(buildRejectionError("STALE_FILE",
                                [tpl |-> "File '{path}' was modified since you last read it. Your version is stale.",
                                 path |-> relPath],
                                blk.name, Undefined,
                                Some([tpl |-> "Re-read the file '{path}' to get the latest content and its current hash, then retry your write using the new content as the base. The current hash is: {hash}",
                                      path |-> relPath,
                                      hash |-> currentHash])),
                              {"lock:exists", "lock:readFile"})
            ELSE Pass({"lock:exists", "lock:readFile"})

----------------------------------------------------------------------------
(* ScopeEnforcementHook *)

\* the registry file: whether it exists, whether yaml.parse accepts it, and
\* its active_intents sequence of [id, status, owned_scope]

\* a lookup that answers with the first entry whenever the id is listed
FindIntentIndex_firstEntry(intents, intentId) ==
    IF \E i \in DOMAIN intents : intents[i].id = intentId THEN 1 ELSE 0

\* index of the first intent with the id, 0 when there is none (findIndex)
FindIntentIndex(intents, intentId) ==
    IF \E i \in DOMAIN intents : intents[i].id = intentId
    THEN CHOOSE i \in DOMAIN intents :
            /\ intents[i].id = intentId
            /\ \A j \in 1..(i - 1) : intents[j].id # intentId
    ELSE 0

\* loadActiveIntent: Some(the first intent with the id), or None for null
loadActiveIntent(reg, readOk, intentId) ==
    IF ~reg.exists THEN None
    ELSE IF ~readOk \/ ~reg.parses THEN None
    ELSE IF FindIntentIndex(reg.intents, intentId) = 0 THEN None
    ELSE Some(reg.intents[FindIntentIndex(reg.intents, intentId)])

\* a path extraction that ignores params.file_path
ScopeRawFilePath_pathOnly(blk) ==
    IF Truthy(blk.params.path) THEN blk.params.path ELSE None

\* params.path || params.file_path
ScopeRawFilePath(blk) ==
    IF Truthy(blk.params.path) THEN blk.params.path
    ELSE IF Truthy(blk.params.file_path) THEN blk.params.file_path
    ELSE None

\* the workspace-relative path the hook matches against owned_scope
ScopeRelativeFilePath(rawFilePath) ==
    IF IsAbsolute(rawFilePath)
    THEN ToPosix(PathRelative(WorkspaceRoot, rawFilePath))
    ELSE ToPosix(rawFilePath)

\* readOk: whether fs.readFile of the registry succeeds
ScopeEnforcementHook_onPreExecute(intentId, blk, reg, readOk) ==
    IF blk.name \notin writeTools THEN Pass({})
    ELSE IF intentId = Undefined THEN Pass({})
    ELSE IF ~IsSome(ScopeRawFilePath(blk)) THEN Pass({})
    ELSE LET rawFilePath == Get(ScopeRawFilePath(blk))
             relativeFilePath == ScopeRelativeFilePath(rawFilePath)
             intent == loadActiveIntent(reg, readOk, intentId)
             owned == Get(intent).owned_scope
             io == IF ~reg.exists THEN {"scope:exists"}
                   ELSE IF ~readOk
                        THEN {"scope:exists", "scope:readRegistry", "scope:readFailed"}
                   ELSE {"scope:exists", "scope:readRegistry"}
         IN IF ~IsSome(intent) THEN Pass(io)
            ELSE IF ~IsSome(owned) \/ Get(owned) = <<>> THEN Pass(io)
            ELSE IF ~\E i \in DOMAIN Get(owned) :
                        matchesScope(relativeFilePath, Get(owned)[i])
                 THEN Blocked(buildRejectionError("SCOPE_VIOLATION",
                                [tpl |-> "Scope Violation: {intent} is not authorized to edit \"{path}\". Request scope expansion.",
                                 intent |-> intentId,
                                 path |-> relativeFilePath],
                                blk.name, intentId,
                                Some([tpl |-> "The file \"{path}\" is outside the owned scope of intent \"{intent}\". You must either restrict your edits to the allowed scope ({scope}) or ask the user to add this file to the intent's owned_scope in active_intents.yaml before proceeding.",
                                      path |-> relativeFilePath,
                                      intent |-> intentId,
                                      scope |-> Get(owned)])),
                              io)
            ELSE Pass(io)


\* onPreExecute rejects: owned.some(...) reaches a pattern on which
\* matchesScope throws before a pattern that matches
ScopeEnforcementHook_throws(intentId, blk, reg, readOk) ==
    /\ blk.name \in writeTools
    /\ intentId # Undefined
    /\ IsSome(ScopeRawFilePath(blk))
    /\ LET relativeFilePath == ScopeRelativeFilePath(Get(ScopeRawFilePath(blk)))
           intent == loadActiveIntent(reg, readOk, intentId)
       IN /\ IsSome(intent)
          /\ IsSome(Get(intent).owned_scope)
          /\ LET owned == Get(Get(intent).owned_scope)
             IN \E i \in DOMAIN owned :
                   /\ matchesScope_throws(relativeFilePath, owned[i])
                   /\ \A j \in 1..(i - 1) :
                         /\ ~matchesScope_throws(relativeFilePath, owned[j])
                         /\ ~matchesScope(relativeFilePath, owned[j])


----------------------------------------------------------------------------
(* AuthorizationHook *)

\* a line of .intentignore is a sequence of tokens: " " (white space),
\* "#" or an identifier

RECURSIVE TrimLeft(_)
TrimLeft(line) ==
    IF line # <<>> /\ Head(line) = " " THEN TrimLeft(Tail(line)) ELSE line

RECURSIVE TrimRight(_)
TrimRight(line) ==
    IF line # <<>> /\ line[Len(line)] = " "
    THEN TrimRight(SubSeq(line, 1, Len(line) - 1))
    ELSE line

\* line.trim()
Trim(line) == TrimRight(TrimLeft(line))

\* the set built from raw.split("\n"): trimmed non-blank, non-comment lines
ParseIntentIgnore(lines) ==
    {Trim(lines[i]) : i \in {j \in DOMAIN lines :
                               /\ Len(Trim(lines[j])) > 0
                               /\ Head(Trim(lines[j])) # "#"}}

IgnorePath == PathJoin(WorkspaceRoot, <<".", "o", "/", ".", "i">>)

\* loadIntentIgnore: the new (cache, path, returned set, io) given the
\* hook's fields and the file; readOk: whether fs.readFile succeeds
loadIntentIgnore(cache, cachePath, file, readOk) ==
    LET cache1 == IF cachePath # Some(IgnorePath) THEN None ELSE cache
    IN IF IsSome(cache1)
       THEN [cache |-> cache1, path |-> Some(IgnorePath), ignored |-> Get(cache1),
             io |-> {}]
       ELSE IF ~file.exists
            THEN [cache |-> Some({}), path |-> Some(IgnorePath), ignored |-> {},
                  io |-> {"auth:exists"}]
       ELSE IF ~readOk
            THEN [cache |-> Some({}), path |-> Some(IgnorePath), ignored |-> {},
                  io |-> {"auth:exists", "auth:readIgnore", "auth:readFailed"}]
       ELSE [cache |-> Some(ParseIntentIgnore(file.lines)),
             path |-> Some(IgnorePath),
             ignored |-> ParseIntentIgnore(file.lines),
             io |-> {"auth:exists", "auth:readIgnore"}]

NoIntentLabel == "(no intent)"

\* ignored.has(id): the set holds trimmed lines, an id is a one-token line
IgnoredHas(ignored, id) == <<id>> \in ignored

\* (params.path || params.file_path) for the dialog's file hint, None for ""
AuthFileHint(blk) ==
    IF Truthy(blk.params.path) THEN blk.params.path
    ELSE IF Truthy(blk.params.file_path) THEN blk.params.file_path
    ELSE None

\* a hook that lets the call through when the bypass list cannot be read
AuthorizationHook_beforeModal_passOnFailure(intentId, blk, cache, cachePath, file, readOk) ==
    IF classifyCommand(blk.name) # "DESTRUCTIVE"
    THEN [decision |-> "pass", cache |-> cache, path |-> cachePath, io |-> {}]
    ELSE LET activeId == IF intentId = Undefined THEN NoIntentLabel ELSE intentId
             loaded == loadIntentIgnore(cache, cachePath, file, readOk)
             bypass == \/ IgnoredHas(loaded.ignored, activeId)
                       \/ "auth:readFailed" \in loaded.io
         IN [decision |-> IF bypass THEN "pass" ELSE "modal",
             cache |-> loaded.cache,
             path |-> loaded.path,
             io |-> IF bypass THEN loaded.io ELSE loaded.io \cup {"auth:modal"}]

\* the first part of onPreExecute, up to the await of the modal dialog:
\* decision is "pass" or "modal"
AuthorizationHook_beforeModal(intentId, blk, cache, cachePath, file, readOk) ==
    IF classifyCommand(blk.name) # "DESTRUCTIVE"
    THEN [decision |-> "pass", cache |-> cache, path |-> cachePath, io |-> {}]
    ELSE LET activeId == IF intentId = Undefined THEN NoIntentLabel ELSE intentId
             loaded == loadIntentIgnore(cache, cachePath, file, readOk)
         IN [decision |-> IF IgnoredHas(loaded.ignored, activeId) THEN "pass" ELSE "modal",
             cache |-> loaded.cache,
             path |-> loaded.path,
             io |-> IF IgnoredHas(loaded.ignored, activeId) THEN loaded.io
                    ELSE loaded.io \cup {"auth:modal"}]

\* a dialog handler that blocks on "Reject" only, so that dismissal passes
AuthorizationHook_afterModal_rejectOnly(intentId, blk, choice) ==
    IF choice = "Reject"
    THEN Blocked(buildRejectionError("USER_REJECTED_INTENT_EVOLUTION",
                   [tpl |-> "The developer rejected the tool call \"{tool}\"{hint}. Reconsider your approach.",
                    tool |-> blk.name,
                    hint |-> AuthFileHint(blk)],
                   blk.name, intentId,
                   Some([tpl |-> "Pause and ask the user what they would like you to do differently, or try an alternative approach that achieves the same goal."])),
                 {"auth:rejected"})
    ELSE Pass({IF choice = "Approve" THEN "auth:approved" ELSE "auth:dismissed"})

\* the rest of onPreExecute, from the dialog's answer
AuthorizationHook_afterModal(intentId, blk, choice) ==
    IF choice # "Approve"
    THEN Blocked(buildRejectionError("USER_REJECTED_INTENT_EVOLUTION",
                   [tpl |-> "The developer rejected the tool call \"{tool}\"{hint}. Reconsider your approach.",
                    tool |-> blk.name,
                    hint |-> AuthFileHint(blk)],
                   blk.name, intentId,
                   Some([tpl |-> "Pause and ask the user what they would like you to do differently, or try an alternative approach that achieves the same goal."])),
                 {IF choice = "Reject" THEN "auth:rejected" ELSE "auth:dismissed"})
    ELSE Pass({"auth:approved"})


----------------------------------------------------------------------------
(* IntentUpdateHook *)

\* a hook that writes the new status without comparing it to the stored one
IntentUpdateHook_onPostExecute_alwaysWrites(intentId, blk, reg, readOk, writeOk) ==
    LET idx == FindIntentIndex(reg.intents, intentId)
        newStatus == IF blk.name = "select_active_intent" THEN "IN_PROGRESS"
                     ELSE "COMPLETED"
    IN IF \/ blk.name # "select_active_intent" /\ blk.name # "attempt_completion"
          \/ intentId = Undefined
       THEN [registry |-> reg, wrote |-> FALSE, io |-> {}]
       ELSE IF ~reg.exists
            THEN [registry |-> reg, wrote |-> FALSE, io |-> {"update:exists"}]
       ELSE IF ~readOk
            THEN [registry |-> reg, wrote |-> FALSE,
                  io |-> {"update:exists", "update:readRegistry", "update:readFailed"}]
       ELSE IF ~reg.parses \/ idx = 0
            THEN [registry |-> reg, wrote |-> FALSE,
                  io |-> {"update:exists", "update:readRegistry"}]
       ELSE IF ~writeOk
            THEN [registry |-> reg, wrote |-> FALSE,
                  io |-> {"update:exists", "update:readRegistry", "update:writeFailed"}]
       ELSE [registry |-> [reg EXCEPT !.intents[idx].status = newStatus],
             wrote |-> TRUE,
             io |-> {"update:exists", "update:readRegistry", "update:writeRegistry"}]

\* a hook that takes every call it reacts to for a selection
IntentUpdateHook_onPostExecute_selectOnly(intentId, blk, reg, readOk, writeOk) ==
    LET idx == FindIntentIndex(reg.intents, intentId)
        newStatus == "IN_PROGRESS"
    IN IF \/ blk.name # "select_active_intent" /\ blk.name # "attempt_completion"
          \/ intentId = Undefined
       THEN [registry |-> reg, wrote |-> FALSE, io |-> {}]
       ELSE IF ~reg.exists
            THEN [registry |-> reg, wrote |-> FALSE, io |-> {"update:exists"}]
       ELSE IF ~readOk
            THEN [registry |-> reg, wrote |-> FALSE,
                  io |-> {"update:exists", "update:readRegistry", "update:readFailed"}]
       ELSE IF ~reg.parses \/ idx = 0 \/ reg.intents[idx].status = newStatus
            THEN [registry |-> reg, wrote |-> FALSE,
                  io |-> {"update:exists", "update:readRegistry"}]
       ELSE IF ~writeOk
            THEN [registry |-> reg, wrote |-> FALSE,
                  io |-> {"update:exists", "update:readRegistry", "update:writeFailed"}]
       ELSE [registry |-> [reg EXCEPT !.intents[idx].status = newStatus],
             wrote |-> TRUE,
             io |-> {"update:exists", "update:readRegistry", "update:writeRegistry"}]

\* onPostExecute: the registry after the hook, whether it wrote the file and
\* the file operations it made.
\* readOk, writeOk: whether fs.readFile / fs.writeFile succeed
IntentUpdateHook_onPostExecute(intentId, blk, reg, readOk, writeOk) ==
    LET idx == FindIntentIndex(reg.intents, intentId)
        newStatus == IF blk.name = "select_active_intent" THEN "IN_PROGRESS"
                     ELSE "COMPLETED"
    IN IF \/ blk.name # "select_active_intent" /\ blk.name # "attempt_completion"
          \/ intentId = Undefined
       THEN [registry |-> reg, wrote |-> FALSE, io |-> {}]
       ELSE IF ~reg.exists
            THEN [registry |-> reg, wrote |-> FALSE, io |-> {"update:exists"}]
       ELSE IF ~readOk
            THEN [registry |-> reg, wrote |-> FALSE,
                  io |-> {"update:exists", "update:readRegistry", "update:readFailed"}]
       ELSE IF ~reg.parses \/ idx = 0 \/ reg.intents[idx].status = newStatus
            THEN [registry |-> reg, wrote |-> FALSE,
                  io |-> {"update:exists", "update:readRegistry"}]
       ELSE IF ~writeOk
            THEN [registry |-> reg, wrote |-> FALSE,
                  io |-> {"update:exists", "update:readRegistry", "update:writeFailed"}]
       ELSE [registry |-> [reg EXCEPT !.intents[idx].status = newStatus],
             wrote |-> TRUE,
             io |-> {"update:exists", "update:readRegistry", "update:writeRegistry"}]

----------------------------------------------------------------------------
(* MutationClassifier *)

\* each pattern is the set of the lines of the model's vocabulary that the
\* regular expression (flag m: tested line by line) matches
REFACTOR_PATTERNS ==
    << {"+const a = 1"},        \* /^[-+]\s*(const|let|...)\s+\w+\s*=/m
       {""},                    \* /^\s*$/m
       {"+import a"},           \* /^[-+]\s*import\s+/m
       {"+// c"} >>             \* /^[-+]\s*(\/\/|\/\*|\*)/m

EVOLUTION_PATTERNS ==
    << {"+function f("},        \* /^\+\s*(async\s+)?function\s+\w+\s*\(/m
       {"+f() {", "+if (c) {"}, \* /^\+\s*(public|...)?\s*(async\s+)?\w+\s*\([^)]*\)\s*[:{]/m
       {"+class C"},            \* /^\+\s*(export\s+)?(class|interface)\s+\w+/m
       {"+export const b"},     \* /^\+\s*export\s+(const|let|function|class|default)/m
       {"+app.get("},           \* /^\+\s*(app|router)\.(get|post|...)\s*\(/m
       {"+if (c) {"} >>         \* /^\+\s*if\s*\(.+\)\s*\{/m

\* pattern.test(content)
PatternTest(pattern, content) == \E i \in DOMAIN content : content[i] \in pattern

\* a classifier that counts the refactor signals before it looks for
\* evolution signals
classifyMutation_refactorFirst(explicitClass, content, isNewFile) ==
    IF explicitClass = Some("AST_REFACTOR") \/ explicitClass = Some("INTENT_EVOLUTION")
    THEN Get(explicitClass)
    ELSE IF isNewFile THEN "INTENT_EVOLUTION"
    ELSE IF Cardinality({i \in DOMAIN REFACTOR_PATTERNS :
                            PatternTest(REFACTOR_PATTERNS[i], content)}) >= 2
         THEN "AST_REFACTOR"
    ELSE "INTENT_EVOLUTION"

classifyMutation(explicitClass, content, isNewFile) ==
    IF explicitClass = Some("AST_REFACTOR") \/ explicitClass = Some("INTENT_EVOLUTION")
    THEN Get(explicitClass)
    ELSE IF isNewFile THEN "INTENT_EVOLUTION"
    ELSE IF \E i \in DOMAIN EVOLUTION_PATTERNS : PatternTest(EVOLUTION_PATTERNS[i], content)
         THEN "INTENT_EVOLUTION"
    ELSE IF Cardinality({i \in DOMAIN REFACTOR_PATTERNS :
                            PatternTest(REFACTOR_PATTERNS[i], content)}) >= 2
         THEN "AST_REFACTOR"
    ELSE "INTENT_EVOLUTION"

----------------------------------------------------------------------------
(* TracePostHook *)

\* nativeArgs?.path ?? params.path ?? params.file_path ?? ""
TraceFilePath(blk) ==
    LET p == Coalesce(Coalesce(Native(blk, "path"), blk.params.path),
                      blk.params.file_path)
    IN IF IsSome(p) THEN Get(p) ELSE EmptyStr

\* the content the hook hashes; "" (EmptyContent) when it obtains none.
\* readOk: whether the fallback fs.readFile succeeds
TraceContentToHash(blk, fs, readOk) ==
    LET absPath == ResolveAbs(TraceFilePath(blk))
        c == Coalesce(Native(blk, "content"), blk.params.content)
    IN IF blk.name = "write_to_file"
       THEN IF IsSome(c) THEN Get(c) ELSE EmptyContent
       ELSE IF TruthyContent(blk.params.diff) THEN Get(blk.params.diff)
       ELSE IF TruthyContent(blk.params.new_string) THEN Get(blk.params.new_string)
       ELSE IF TruthyContent(blk.params.patch) THEN Get(blk.params.patch)
       ELSE IF fileExistsAtPath(fs, absPath) /\ readOk THEN FileAt(fs, absPath)
       ELSE EmptyContent

\* onPostExecute: Some(the trace entry it appends) or None when it returns
\* before the append; id and timestamp are left out of the entry
TracePostHook_entry(intentId, taskId, blk, fs, readOk) ==
    LET filePath == TraceFilePath(blk)
        relativePath == IF IsAbsolute(filePath)
                        THEN ToPosix(PathRelative(WorkspaceRoot, filePath))
                        ELSE ToPosix(filePath)
        contentToHash == TraceContentToHash(blk, fs, readOk)
        isNewFile == IF blk.name = "write_to_file"
                     THEN ~fileExistsAtPath(fs, ResolveAbs(filePath))
                     ELSE FALSE
        explicitMutationClass ==
            Coalesce(Native(blk, "mutation_class"), blk.params.mutation_class)
        explicitIntentId == Coalesce(Native(blk, "intent_id"), blk.params.intent_id)
        requirement ==
            IF TruthyId(explicitIntentId) /\ Get(explicitIntentId) # intentId
            THEN <<[type |-> "requirement", value |-> Get(explicitIntentId)]>>
            ELSE <<>>
    IN IF blk.name \notin writeTools THEN None
       ELSE IF intentId = Undefined THEN None
       ELSE IF filePath = EmptyStr THEN None
       ELSE IF contentToHash = EmptyContent THEN None
       ELSE Some([vcs |-> [revision_id |-> "unavailable"],
                  files |-> <<[relative_path |-> relativePath,
                               conversations |-> <<
                                 [url |-> taskId,
                                  contributor |-> [entity_type |-> "AI"],
                                  ranges |-> <<[start_line |-> 1,
                                                end_line |-> Len(contentToHash),
                                                content_hash |-> hashContent(contentToHash),
                                                mutation_class |->
                                                    classifyMutation(explicitMutationClass,
                                                                     contentToHash, isNewFile)]>>,
                                  related |-> <<[type |-> "specification",
                                                 value |-> intentId]>> \o requirement]>>]>>])


----------------------------------------------------------------------------
(* Tasks, the driver and the tools *)

Tasks == {"t1", "t2"}

\* ids of the hooks, by class
GatekeeperId == "intent-gatekeeper"
LockId == "optimistic-lock"
ScopeId == "scope-enforcement"
AuthId == "authorization"
IntentUpdateId == "intent-update"
TraceId == "trace-post-hook"

\* initializeHooks(): the registration order
CanonicalHooks == <<GatekeeperId, LockId, ScopeId, AuthId, IntentUpdateId, TraceId>>

\* hooks other than the six system hooks, written against the ToolHook
\* interface: one that redirects a write of a/f to p/f, one that fills in
\* the payload, both through transformedBlock and without onPostExecute, and
\* one whose onPreExecute may reject and whose onPostExecute may throw
RetargetId == "stub-retarget"
PayloadId == "stub-payload"
ThrowingId == "stub-throwing"

\* the hooks that define onPostExecute
HasPostHandler(id) ==
    id \in {LockId, ScopeId, AuthId, IntentUpdateId, TraceId, ThrowingId}

\* a hook object: its id and which construction (new ...) made it
NewHook(id, inst) == [id |-> id, inst |-> inst]

\* the ids of a sequence of hooks
HookIds(hs) == [i \in DOMAIN hs |-> hs[i].id]

\* this.hooks.filter((h) => h.id !== id)
RECURSIVE FilterOutId(_, _)
FilterOutId(hs, id) ==
    IF hs = <<>> THEN <<>>
    ELSE IF Head(hs).id = id THEN FilterOutId(Tail(hs), id)
    ELSE <<Head(hs)>> \o FilterOutId(Tail(hs), id)

\* a registerHook that keeps the hook already registered under the id
registerHook_keepExisting(hs, hook) ==
    IF \E i \in DOMAIN hs : hs[i].id = hook.id
    THEN hs
    ELSE Append(hs, hook)

\* a registerHook that pushes without removing the hook of the same id
registerHook_noReplace(hs, hook) == Append(hs, hook)

\* HookEngine.registerHook: this.hooks afterwards
registerHook(hs, hook) ==
    IF \E i \in DOMAIN hs : hs[i].id = hook.id
    THEN Append(FilterOutId(hs, hook.id), hook)
    ELSE Append(hs, hook)

\* registerHook(new C()) for each class of ids in turn, the n-th hook object
\* constructed so far being the last one
RECURSIVE RegisterAll(_, _, _)
RegisterAll(hs, ids, n) ==
    IF ids = <<>> THEN hs
    ELSE RegisterAll(registerHook(hs, NewHook(Head(ids), n + 1)), Tail(ids), n + 1)

\* registerHook for each hook of a sequence in turn
RECURSIVE RegisterEach(_, _)
RegisterEach(hs, log) ==
    IF log = <<>> THEN hs
    ELSE RegisterEach(registerHook(hs, Head(log)), Tail(log))

\* the hook objects those calls construct, in order
NewHooks(ids, n) == [i \in DOMAIN ids |-> NewHook(ids[i], n + i)]

\* an initializeHooks that registers the Authorization hook first
initializeHooks_modalFirst(hs, n) ==
    RegisterAll(hs, <<AuthId, GatekeeperId, LockId, ScopeId, IntentUpdateId, TraceId>>, n)

\* initializeHooks() on an engine holding hs, after n constructions
initializeHooks(hs, n) == RegisterAll(hs, CanonicalHooks, n)

NoParams ==
    [path |-> None, file_path |-> None, content |-> None, diff |-> None,
     new_string |-> None, patch |-> None, expected_hash |-> None,
     mutation_class |-> None, intent_id |-> None]

NoNativeArgs ==
    [path |-> None, content |-> None, expected_hash |-> None,
     mutation_class |-> None, intent_id |-> None]

Call(name, params) == [name |-> name, params |-> params, nativeArgs |-> None]

NoBlock == Call("", NoParams)

Pending == [blocked |-> FALSE, errorMessage |-> NoError]

\* history: the trace entries a select_active_intent put in its result
NotExecuted ==
    [executed |-> FALSE, ok |-> FALSE, target |-> EmptyStr, hashAtWrite |-> EmptyStr,
     history |-> <<>>]

\* the path a write tool writes to (native_args preferred)
ToolFilePath(blk) ==
    LET p == Coalesce(Coalesce(Native(blk, "path"), blk.params.path),
                      blk.params.file_path)
    IN IF IsSome(p) THEN Get(p) ELSE EmptyStr

\* the content a write tool leaves in the file: the new content of a
\* full-file write, else the diff / new-string / patch payload applied
ToolPayload(blk) ==
    IF blk.name = "write_to_file"
    THEN Coalesce(Native(blk, "content"), blk.params.content)
    ELSE IF TruthyContent(blk.params.diff) THEN blk.params.diff
    ELSE IF TruthyContent(blk.params.new_string) THEN blk.params.new_string
    ELSE IF TruthyContent(blk.params.patch) THEN blk.params.patch
    ELSE None

\* whether the write tool succeeds on the file system fs
WriteSucceeds(blk, fs) ==
    /\ ToolFilePath(blk) # EmptyStr
    /\ Denoted(ResolveAbs(ToolFilePath(blk))) \in DOMAIN fs
    /\ IsSome(ToolPayload(blk))
    /\ (blk.name = "write_to_file" \/ fileExistsAtPath(fs, ResolveAbs(ToolFilePath(blk))))

\* value.startsWith(prefix), on the ids of the model, none of which is a
\* proper prefix of another
IdStartsWith(value, prefix) == value = prefix

\* the test of loadRelatedTraceEntries: some related item of some
\* conversation of some file of the entry has the value intentId, or a value
\* that starts with it, or the type "specification"
IsRelated(entry, intentId) ==
    \E f \in DOMAIN entry.files :
        \E c \in DOMAIN entry.files[f].conversations :
            \E r \in DOMAIN entry.files[f].conversations[c].related :
                LET rel == entry.files[f].conversations[c].related[r]
                IN \/ rel.value = intentId
                   \/ IdStartsWith(rel.value, intentId)
                   \/ rel.type = "specification"

\* loadRelatedTraceEntries: the lines of the ledger that pass the test, in
\* order; none when the file is missing or (readOk false) cannot be read
loadRelatedTraceEntries(trace, intentId, readOk) ==
    LET Matches(entry) == IsRelated(entry, intentId)
    IN IF trace = <<>> \/ ~readOk THEN <<>> ELSE SelectSeq(trace, Matches)

\* SelectActiveIntentTool.execute: the trace entries in the
\* <agent_trace_history> of its result, none on its error paths
SelectActiveIntentTool_history(blk, reg, readOk, trace, traceReadOk) ==
    LET intent_id == blk.params.intent_id
    IN IF ~TruthyId(intent_id) THEN <<>>
       ELSE IF ~reg.exists THEN <<>>
       ELSE IF ~readOk \/ ~reg.parses THEN <<>>
       ELSE IF \A i \in DOMAIN reg.intents : reg.intents[i].id # Get(intent_id) THEN <<>>
       ELSE loadRelatedTraceEntries(trace, Get(intent_id), traceReadOk)

\* an execute that takes the requested id without looking it up
SelectActiveIntentTool_execute_unchecked(intentId, blk, reg, readOk) ==
    IF TruthyId(blk.params.intent_id) THEN Get(blk.params.intent_id) ELSE intentId

\* SelectActiveIntentTool.execute: the task's activeIntentId afterwards.
\* readOk: whether fs.readFile of the registry succeeds
SelectActiveIntentTool_execute(intentId, blk, reg, readOk) ==
    LET intent_id == blk.params.intent_id
    IN IF ~TruthyId(intent_id) THEN intentId
       ELSE IF ~reg.exists THEN intentId
       ELSE IF ~readOk \/ ~reg.parses THEN intentId
       ELSE IF FindIntentIndex(reg.intents, Get(intent_id)) = 0 THEN intentId
       ELSE Get(intent_id)


----------------------------------------------------------------------------
(* HookEngine.runPreHooks, one hook invocation per step *)

\* what the stub hooks substitute
RetargetFrom == <<"a", "/", "f">>
RetargetTo == <<"p", "/", "f">>
StubPayload == <<"y">>

\* onPreExecute of the stub hooks: { blocked: false, transformedBlock? }
StubHook_onPreExecute(id, blk) ==
    IF id = RetargetId /\ blk.params.path = Some(RetargetFrom)
    THEN [Pass({}) EXCEPT !.transformedBlock =
             Some([blk EXCEPT !.params.path = Some(RetargetTo)])]
    ELSE IF id = PayloadId /\ blk.name \in writeTools
         THEN [Pass({}) EXCEPT !.transformedBlock =
                  Some([blk EXCEPT !.params.content = Some(StubPayload)])]
    ELSE Pass({})

\* a pre-phase whose Optimistic Lock hook lets every call pass
HookPre_noLock(id, intentId, blk, fs, reg, readOk) ==
    CASE id = GatekeeperId -> IntentGatekeeperHook_onPreExecute(intentId, blk)
      [] id = ScopeId -> ScopeEnforcementHook_onPreExecute(intentId, blk, reg, readOk)
      [] OTHER -> Pass({})

\* onPreExecute of the hooks that finish without awaiting the human
HookPre(id, intentId, blk, fs, reg, readOk) ==
    CASE id = GatekeeperId -> IntentGatekeeperHook_onPreExecute(intentId, blk)
      [] id = LockId -> OptimisticLockHook_onPreExecute(blk, fs, readOk)
      [] id = ScopeId -> ScopeEnforcementHook_onPreExecute(intentId, blk, reg, readOk)
      [] id \in {RetargetId, PayloadId} -> StubHook_onPreExecute(id, blk)
      [] OTHER -> Pass({})

\* a runPreHooks that records a blocked result but goes on to the next hook
AfterPreHook_noHalt(a, id, r) ==
    /\ trail' = [trail EXCEPT ![a] =
                    Append(@, [hook |-> id,
                               block |-> currentBlock[a],
                               transformedBlock |-> r.transformedBlock,
                               result |-> [blocked |-> r.blocked,
                                           errorMessage |-> r.errorMessage]])]
    /\ ioLog' = [ioLog EXCEPT ![a] = @ \cup r.io]
    /\ currentBlock' = [currentBlock EXCEPT ![a] =
                           IF ~r.blocked /\ IsSome(r.transformedBlock)
                           THEN Get(r.transformedBlock) ELSE @]
    /\ IF hookIdx[a] = Len(hooks)
       THEN /\ preResult' = [preResult EXCEPT ![a] =
                                IF r.blocked
                                THEN [blocked |-> TRUE, errorMessage |-> r.errorMessage]
                                ELSE Pending]
            /\ pc' = [pc EXCEPT ![a] = IF r.blocked THEN "done" ELSE "exec"]
            /\ UNCHANGED hookIdx
       ELSE /\ hookIdx' = [hookIdx EXCEPT ![a] = @ + 1]
            /\ pc' = [pc EXCEPT ![a] = "pre"]
            /\ UNCHANGED preResult

\* a runPreHooks that keeps handing the original block to every hook
AfterPreHook_noTransform(a, id, r) ==
    /\ trail' = [trail EXCEPT ![a] =
                    Append(@, [hook |-> id,
                               block |-> currentBlock[a],
                               transformedBlock |-> r.transformedBlock,
                               result |-> [blocked |-> r.blocked,
                                           errorMessage |-> r.errorMessage]])]
    /\ ioLog' = [ioLog EXCEPT ![a] = @ \cup r.io]
    /\ UNCHANGED currentBlock
    /\ IF r.blocked
       THEN /\ preResult' = [preResult EXCEPT ![a] =
                                [blocked |-> TRUE, errorMessage |-> r.errorMessage]]
            /\ pc' = [pc EXCEPT ![a] = "done"]
            /\ UNCHANGED hookIdx
       ELSE IF hookIdx[a] = Len(hooks)
            THEN /\ preResult' = [preResult EXCEPT ![a] = Pending]
                 /\ pc' = [pc EXCEPT ![a] = "exec"]
                 /\ UNCHANGED hookIdx
            ELSE /\ hookIdx' = [hookIdx EXCEPT ![a] = @ + 1]
                 /\ pc' = [pc EXCEPT ![a] = "pre"]
                 /\ UNCHANGED preResult

\* a blocked result after which the post-phase of the call still runs
AfterPreHook_blockedRunsPost(a, id, r) ==
    /\ trail' = [trail EXCEPT ![a] =
                    Append(@, [hook |-> id,
                               block |-> currentBlock[a],
                               transformedBlock |-> r.transformedBlock,
                               result |-> [blocked |-> r.blocked,
                                           errorMessage |-> r.errorMessage]])]
    /\ ioLog' = [ioLog EXCEPT ![a] = @ \cup r.io]
    /\ currentBlock' = [currentBlock EXCEPT ![a] =
                           IF ~r.blocked /\ IsSome(r.transformedBlock)
                           THEN Get(r.transformedBlock) ELSE @]
    /\ IF r.blocked
       THEN /\ preResult' = [preResult EXCEPT ![a] =
                                [blocked |-> TRUE, errorMessage |-> r.errorMessage]]
            /\ pc' = [pc EXCEPT ![a] = "post"]
            /\ hookIdx' = [hookIdx EXCEPT ![a] = 1]
       ELSE IF hookIdx[a] = Len(hooks)
            THEN /\ preResult' = [preResult EXCEPT ![a] = Pending]
                 /\ pc' = [pc EXCEPT ![a] = "exec"]
                 /\ UNCHANGED hookIdx
            ELSE /\ hookIdx' = [hookIdx EXCEPT ![a] = @ + 1]
                 /\ pc' = [pc EXCEPT ![a] = "pre"]
                 /\ UNCHANGED preResult

\* the loop body of runPreHooks after hook id returned r for task a
AfterPreHook(a, id, r) ==
    /\ trail' = [trail EXCEPT ![a] =
                    Append(@, [hook |-> id,
                               block |-> currentBlock[a],
                               transformedBlock |-> r.transformedBlock,
                               result |-> [blocked |-> r.blocked,
                                           errorMessage |-> r.errorMessage]])]
    /\ ioLog' = [ioLog EXCEPT ![a] = @ \cup r.io]
    /\ currentBlock' = [currentBlock EXCEPT ![a] =
                           IF ~r.blocked /\ IsSome(r.transformedBlock)
                           THEN Get(r.transformedBlock) ELSE @]
    /\ IF r.blocked
       THEN /\ preResult' = [preResult EXCEPT ![a] =
                                [blocked |-> TRUE, errorMessage |-> r.errorMessage]]
            /\ pc' = [pc EXCEPT ![a] = "done"]
            /\ UNCHANGED hookIdx
       ELSE IF hookIdx[a] = Len(hooks)
            THEN /\ preResult' = [preResult EXCEPT ![a] = Pending]
                 /\ pc' = [pc EXCEPT ![a] = "exec"]
                 /\ UNCHANGED hookIdx
            ELSE /\ hookIdx' = [hookIdx EXCEPT ![a] = @ + 1]
                 /\ pc' = [pc EXCEPT ![a] = "pre"]
                 /\ UNCHANGED preResult

\* the promise of the hook's onPreExecute rejects: the await in runPreHooks
\* throws and, the loop having no try, so does runPreHooks, with no result
PreHookRejects(a) ==
    /\ pc' = [pc EXCEPT ![a] = "threw"]
    /\ ioLog' = [ioLog EXCEPT ![a] = @ \cup {"pre:rejected"}]
    /\ UNCHANGED <<trail, hookIdx, preResult, currentBlock>>

\* the driver hands a tool call of task a to the engine
Dispatch(a) ==
    /\ pc[a] \in {"idle", "done"}
    /\ callsLeft[a] > 0
    /\ \E blk \in toolCalls :
          /\ block' = [block EXCEPT ![a] = blk]
          /\ currentBlock' = [currentBlock EXCEPT ![a] = blk]
    /\ callsLeft' = [callsLeft EXCEPT ![a] = @ - 1]
    /\ hookIdx' = [hookIdx EXCEPT ![a] = 1]
    /\ pc' = [pc EXCEPT ![a] = IF Len(hooks) = 0 THEN "exec" ELSE "pre"]
    /\ preResult' = [preResult EXCEPT ![a] = Pending]
    /\ trail' = [trail EXCEPT ![a] = <<>>]
    /\ ioLog' = [ioLog EXCEPT ![a] = {}]
    /\ execLog' = [execLog EXCEPT ![a] = NotExecuted]
    /\ postTrail' = [postTrail EXCEPT ![a] = <<>>]
    /\ UNCHANGED <<authVars, evaluated, lessonVars, updateVars>>
    /\ UNCHANGED <<hooks, regLog, files, registry, ledger, ignoreFile,
                   intentIgnoreCache, intentIgnorePath, activeIntentId, toolCalls>>

\* a pre-phase in which the Intent Update hook already moves the status
RunPreHook_updatesStatus(a) ==
    /\ pc[a] = "pre"
    /\ \E readOk \in BOOLEAN :
          LET id == hooks[hookIdx[a]].id
              blk == currentBlock[a]
              before == AuthorizationHook_beforeModal(activeIntentId[a], blk,
                            intentIgnoreCache, intentIgnorePath, ignoreFile, readOk)
          IN /\ registry' = IF id = IntentUpdateId
                            THEN IntentUpdateHook_onPostExecute(
                                     activeIntentId[a], blk, registry, TRUE, TRUE).registry
                            ELSE registry
             /\ IF id = AuthId
                THEN /\ intentIgnoreCache' = before.cache
                     /\ intentIgnorePath' = before.path
                     /\ IF before.decision = "modal"
                        THEN /\ pc' = [pc EXCEPT ![a] = "modal"]
                             /\ ioLog' = [ioLog EXCEPT ![a] = @ \cup before.io]
                             /\ UNCHANGED <<trail, hookIdx, preResult, currentBlock>>
                        ELSE AfterPreHook(a, id, Pass(before.io))
                ELSE IF \/ id = ThrowingId /\ ~readOk
                        \/ /\ id = ScopeId
                           /\ ScopeEnforcementHook_throws(activeIntentId[a], blk,
                                                          registry, readOk)
                THEN /\ PreHookRejects(a)
                     /\ UNCHANGED <<intentIgnoreCache, intentIgnorePath>>
                ELSE /\ AfterPreHook(a, id,
                           HookPre(id, activeIntentId[a], blk, files, registry, readOk))
                     /\ UNCHANGED <<intentIgnoreCache, intentIgnorePath>>
    /\ UNCHANGED <<authVars, evaluated, lessonVars, updateVars>>
    /\ UNCHANGED <<hooks, regLog, files, ledger, ignoreFile,
                   activeIntentId, block, callsLeft, toolCalls, execLog, postTrail>>

\* runPreHooks invokes the next hook for task a's call
RunPreHook(a) ==
    /\ pc[a] = "pre"
    /\ \E readOk \in BOOLEAN :
          LET id == hooks[hookIdx[a]].id
              blk == currentBlock[a]
              before == AuthorizationHook_beforeModal(activeIntentId[a], blk,
                            intentIgnoreCache, intentIgnorePath, ignoreFile, readOk)
          IN IF id = AuthId
             THEN /\ intentIgnoreCache' = before.cache
                  /\ intentIgnorePath' = before.path
                  /\ IF before.decision = "modal"
                     THEN /\ pc' = [pc EXCEPT ![a] = "modal"]
                          /\ ioLog' = [ioLog EXCEPT ![a] = @ \cup before.io]
                          /\ UNCHANGED <<trail, hookIdx, preResult, currentBlock>>
                     ELSE AfterPreHook(a, id, Pass(before.io))
             ELSE IF \/ id = ThrowingId /\ ~readOk
                     \/ /\ id = ScopeId
                        /\ ScopeEnforcementHook_throws(activeIntentId[a], blk,
                                                       registry, readOk)
             THEN /\ PreHookRejects(a)
                  /\ UNCHANGED <<intentIgnoreCache, intentIgnorePath>>
             ELSE /\ AfterPreHook(a, id,
                        HookPre(id, activeIntentId[a], blk, files, registry, readOk))
                  /\ UNCHANGED <<intentIgnoreCache, intentIgnorePath>>
    /\ UNCHANGED <<authVars, evaluated, lessonVars, updateVars>>
    /\ UNCHANGED <<hooks, regLog, files, registry, ledger, ignoreFile,
                   activeIntentId, block, callsLeft, toolCalls, execLog, postTrail>>

ModalChoices == {"Approve", "Reject", Undefined}

\* the human answers (or dismisses) the approval dialog of task a's call
ModalRespond(a, choice) ==
    /\ pc[a] = "modal"
    /\ AfterPreHook(a, AuthId,
          AuthorizationHook_afterModal(activeIntentId[a], currentBlock[a], choice))
    /\ UNCHANGED <<authVars, evaluated, lessonVars, updateVars>>
    /\ UNCHANGED <<hooks, regLog, files, registry, ledger, ignoreFile,
                   intentIgnoreCache, intentIgnorePath, activeIntentId, block,
                   callsLeft, toolCalls, execLog, postTrail>>

\* the tool of task a's call runs, on the block the pre-phase returned
ToolExec(a) ==
    /\ pc[a] = "exec"
    /\ \E readOk \in BOOLEAN :
          LET blk == currentBlock[a]
              absPath == ResolveAbs(ToolFilePath(blk))
              ok == WriteSucceeds(blk, files)
          IN IF blk.name \in writeTools
             THEN /\ files' = IF ok
                              THEN [files EXCEPT ![Denoted(absPath)] = Get(ToolPayload(blk))]
                              ELSE files
                  /\ execLog' = [execLog EXCEPT ![a] =
                        [executed |-> TRUE, ok |-> ok,
                         target |-> IF ok THEN Denoted(absPath) ELSE EmptyStr,
                         hashAtWrite |-> IF ok /\ fileExistsAtPath(files, absPath)
                                         THEN hashContent(FileAt(files, absPath))
                                         ELSE EmptyStr,
                         history |-> <<>>]]
                  /\ UNCHANGED activeIntentId
             ELSE /\ activeIntentId' = [activeIntentId EXCEPT ![a] =
                        IF blk.name = "select_active_intent"
                        THEN SelectActiveIntentTool_execute(@, blk, registry, readOk)
                        ELSE @]
                  /\ \E traceReadOk \in BOOLEAN :
                        execLog' = [execLog EXCEPT ![a] =
                            [NotExecuted EXCEPT
                                !.executed = TRUE, !.ok = TRUE,
                                !.history =
                                    IF blk.name = "select_active_intent"
                                    THEN SelectActiveIntentTool_history(
                                             blk, registry, readOk, ledger, traceReadOk)
                                    ELSE <<>>]]
                  /\ UNCHANGED files
    /\ pc' = [pc EXCEPT ![a] = "post"]
    /\ hookIdx' = [hookIdx EXCEPT ![a] = 1]
    /\ UNCHANGED <<authVars, evaluated, lessonVars, updateVars>>
    /\ UNCHANGED <<hooks, regLog, registry, ledger, ignoreFile, intentIgnoreCache,
                   intentIgnorePath, block, currentBlock, preResult, callsLeft,
                   toolCalls, trail, ioLog, postTrail>>

\* a runPostHooks that stops at the first onPostExecute that throws
AfterPostHook_abortOnThrow(a, threw) ==
    IF hookIdx[a] = Len(hooks) \/ threw
    THEN /\ pc' = [pc EXCEPT ![a] = "done"]
         /\ UNCHANGED hookIdx
    ELSE /\ hookIdx' = [hookIdx EXCEPT ![a] = @ + 1]
         /\ UNCHANGED pc

\* the loop of runPostHooks after the hook at hookIdx, whose onPostExecute
\* threw or not: the catch logs and the loop goes on
AfterPostHook(a, threw) ==
    IF hookIdx[a] = Len(hooks)
    THEN /\ pc' = [pc EXCEPT ![a] = "done"]
         /\ UNCHANGED hookIdx
    ELSE /\ hookIdx' = [hookIdx EXCEPT ![a] = @ + 1]
         /\ UNCHANGED pc

\* an appendFile that replaces the file's content by the new line
appendFile_truncates(file, line) == <<line>>

\* fs.appendFile(traceLedgerPath, JSON.stringify(traceEntry) + "\n"): one
\* write of one whole line at the end of the file
appendFile(file, line) == Append(file, line)

\* runPostHooks reaches the next hook for task a's call
RunPostHook(a) ==
    /\ pc[a] = "post"
    /\ \E readOk \in BOOLEAN, writeOk \in BOOLEAN :
          LET id == hooks[hookIdx[a]].id
              blk == currentBlock[a]
              upd == IntentUpdateHook_onPostExecute(activeIntentId[a], blk,
                                                    registry, readOk, writeOk)
              entry == TracePostHook_entry(activeIntentId[a], a, blk, files, readOk)
              threw == id = ThrowingId /\ ~writeOk
          IN /\ registry' = IF id = IntentUpdateId THEN upd.registry ELSE registry
             /\ ledger' = IF id = TraceId /\ IsSome(entry) /\ writeOk
                          THEN appendFile(ledger, Get(entry))
                          ELSE ledger
             /\ ioLog' = [ioLog EXCEPT ![a] =
                    @ \cup (IF id = IntentUpdateId THEN upd.io ELSE {})
                      \cup (IF id = TraceId /\ IsSome(entry)
                            THEN IF writeOk THEN {"trace:append"}
                                 ELSE {"trace:appendFailed"}
                            ELSE {})]
             /\ postTrail' = [postTrail EXCEPT ![a] =
                    IF HasPostHandler(id)
                    THEN Append(@, [hook |-> id, threw |-> threw])
                    ELSE @]
             /\ AfterPostHook(a, threw)
    /\ UNCHANGED <<authVars, evaluated, lessonVars, updateVars>>
    /\ UNCHANGED <<hooks, regLog, files, ignoreFile, intentIgnoreCache,
                   intentIgnorePath, activeIntentId, block, currentBlock, preResult,
                   callsLeft, toolCalls, trail, execLog>>

Next ==
    \/ \E a \in Tasks : Dispatch(a)
    \/ \E a \in Tasks : RunPreHook(a)
    \/ \E a \in Tasks : \E choice \in ModalChoices : ModalRespond(a, choice)
    \/ \E a \in Tasks : ToolExec(a)
    \/ \E a \in Tasks : RunPostHook(a)


----------------------------------------------------------------------------
(* Workspaces and tool calls of the runs *)

\* workspace files: a/f and p/f
AF == <<"a", "/", "f">>
PF == <<"p", "/", "f">>
\* a/../p/f, another spelling of p/f
AUpPF == <<"a", "/", ".", ".", "/", "p", "/", "f">>
\* /w/a/f, the absolute spelling of a/f
AbsAF == <<"/", "w", "/", "a", "/", "f">>

CX == <<"x">>
CY == <<"y">>

Int1 == "INT-001"
Int2 == "INT-002"
\* an id that no registry holds
Int404 == "INT-404"

Intent(id, scope) == [id |-> id, status |-> "TODO", owned_scope |-> scope]

\* a/** and a/*
ScopeAll == <<"a", "/", "*", "*">>
ScopeDirect == <<"a", "/", "*">>

RegistryOf(intents) == [exists |-> TRUE, parses |-> TRUE, intents |-> intents]

\* INT-001 owns a/**, INT-002 is unscoped
CanonicalRegistry ==
    RegistryOf(<<Intent(Int1, Some(<<ScopeAll>>)), Intent(Int2, None)>>)

MissingRegistry == [exists |-> FALSE, parses |-> FALSE, intents |-> <<>>]

CorruptRegistry == [exists |-> TRUE, parses |-> FALSE, intents |-> <<>>]

NoIgnoreFile == [exists |-> FALSE, lines |-> <<>>]

\* "# bypass list\n INT-002 \n\n"
BypassInt2 ==
    [exists |-> TRUE,
     lines |-> << <<"#", " ", "bypass">>, <<" ", Int2, " ">>, <<>> >>]

SelectCalls ==
    {Call("select_active_intent", [NoParams EXCEPT !.intent_id = Some(i)]) :
        i \in {Int1, Int2, Int404}}

GeneralCalls ==
    {Call(n, [NoParams EXCEPT !.path = Some(p), !.content = Some(CY),
                              !.new_string = Some(CY), !.expected_hash = h]) :
        n \in {"write_to_file", "edit", "execute_command", "insert_content",
               "read_file", "attempt_completion", "some_made_up_tool"},
        p \in {AF, PF},
        h \in {None, Some(hashContent(CX)), Some(hashContent(CY))}}

\* the state after task construction, for a run with the given tool calls,
\* workspaces and per-task call budget, when the engine holds hs, log being
\* the hooks registered to get there
InitKernel(hs, log, calls, fileStates, registries, ignoreFiles, budget) ==
    /\ hooks = hs
    /\ regLog = log
    /\ postTrail = [a \in Tasks |-> <<>>]
    /\ files \in fileStates
    /\ registry \in registries
    /\ ledger = <<>>
    /\ ignoreFile \in ignoreFiles
    /\ intentIgnoreCache = None
    /\ intentIgnorePath = None
    /\ activeIntentId = [a \in Tasks |-> Undefined]
    /\ pc = [a \in Tasks |-> "idle"]
    /\ block = [a \in Tasks |-> NoBlock]
    /\ currentBlock = [a \in Tasks |-> NoBlock]
    /\ hookIdx = [a \in Tasks |-> 1]
    /\ preResult = [a \in Tasks |-> Pending]
    /\ callsLeft = budget
    /\ toolCalls = calls
    /\ trail = [a \in Tasks |-> <<>>]
    /\ ioLog = [a \in Tasks |-> {}]
    /\ execLog = [a \in Tasks |-> NotExecuted]

\* no call of loadIntentIgnore is under way
NoFrame == [at |-> "idle", ignorePath |-> None, raw |-> None, ignored |-> {},
            stale |-> FALSE]

\* no task is between the read and the write of the Intent Update hook
NoUpdateData == [a \in Tasks |-> None]

\* record_lesson has not been called
NoLessons == [original |-> None, recorded |-> <<>>, calls |-> 0, last |-> None]

\* no pure helper is being called on its own
NoEvaluation == [fn |-> "none"]

\* nothing is cached
NoCacheGhost == [from |-> None, stale |-> FALSE, reads |-> 0]

\* the same with one workspace, whose bypass list is the variable ignoreFile
\* and is loaded in one step
InitFrom(hs, log, calls, fileStates, registries, ignoreFiles, budget) ==
    /\ InitKernel(hs, log, calls, fileStates, registries, ignoreFiles, budget)
    /\ workspace = [current |-> WorkspaceRoot, ignore |-> <<>>]
    /\ loadFrame = [a \in Tasks |-> NoFrame]
    /\ cacheGhost = NoCacheGhost
    /\ evaluated = NoEvaluation
    /\ claudeMd = None
    /\ lessonLog = NoLessons
    /\ updateData = NoUpdateData

\* the engine as the import of core/hooks/index.ts leaves it
InitWith(calls, fileStates, registries, ignoreFiles, budget) ==
    InitFrom(initializeHooks(<<>>, 0), NewHooks(CanonicalHooks, 0),
             calls, fileStates, registries, ignoreFiles, budget)

FilesOf(af, pf) == (AF :> af) @@ (PF :> pf)

OneTask == [a \in Tasks |-> IF a = "t1" THEN MaxCalls ELSE 0]

Init ==
    InitWith(SelectCalls \cup GeneralCalls,
             {FilesOf(Absent, Absent), FilesOf(CX, Absent)},
             {CanonicalRegistry},
             {NoIgnoreFile, BypassInt2},
             OneTask)

Spec == Init /\ [][Next]_vars


\* two agents that both read a/f at content x, so at hash(x)
ConcCalls ==
    {Call("select_active_intent", [NoParams EXCEPT !.intent_id = Some(Int1)]),
     Call("write_to_file", [NoParams EXCEPT !.path = Some(AF), !.content = Some(CY),
                                            !.expected_hash = Some(hashContent(CX))])}

TwoTasks == [a \in Tasks |-> MaxCalls]

InitConc ==
    InitWith(ConcCalls, {FilesOf(CX, Absent)}, {CanonicalRegistry},
             {NoIgnoreFile}, TwoTasks)

SpecConc == InitConc /\ [][Next]_vars

\* a call that carries native_args
CallNative(name, params, native) ==
    [name |-> name, params |-> params, nativeArgs |-> Some(native)]

\* the payload that lets the write tools succeed
WithPayload(params) == [params EXCEPT !.content = Some(CY), !.new_string = Some(CY)]

\* expected_hash absent, "", hash(x), hash(y); path relative, absolute,
\* given as file_path, or missing
LockParams ==
    {[NoParams EXCEPT !.path = Some(AF), !.expected_hash = h] :
        h \in {None, Some(EmptyStr), Some(hashContent(CX)), Some(hashContent(CY))}}
    \cup {[NoParams EXCEPT !.path = Some(AbsAF), !.expected_hash = Some(hashContent(CY))],
          [NoParams EXCEPT !.file_path = Some(AF), !.expected_hash = Some(hashContent(CX))],
          [NoParams EXCEPT !.expected_hash = Some(hashContent(CX))]}

LockCalls ==
    {Call(n, WithPayload(p)) : n \in {"write_to_file", "edit", "read_file"},
                               p \in LockParams}
    \cup {CallNative("edit",
             WithPayload([NoParams EXCEPT !.path = Some(AF),
                                          !.expected_hash = Some(hashContent(CY))]),
             [NoNativeArgs EXCEPT !.expected_hash = Some(hashContent(CX))]),
          CallNative("edit",
             WithPayload([NoParams EXCEPT !.path = Some(AF),
                                          !.expected_hash = Some(hashContent(CX))]),
             [NoNativeArgs EXCEPT !.path = Some(PF)]),
          Call("select_active_intent", [NoParams EXCEPT !.intent_id = Some(Int1)])}

InitLock ==
    InitWith(LockCalls,
             {FilesOf(Absent, Absent), FilesOf(CX, Absent), FilesOf(CY, Absent)},
             {CanonicalRegistry}, {NoIgnoreFile}, OneTask)

SpecLock == InitLock /\ [][Next]_vars

\* INT-001 owns a/*, INT-002 has an empty owned_scope
DirectRegistry ==
    RegistryOf(<<Intent(Int1, Some(<<ScopeDirect>>)), Intent(Int2, Some(<<>>))>>)

ScopeParams ==
    {[NoParams EXCEPT !.path = Some(p)] : p \in {AF, PF, AUpPF, AbsAF}}
    \cup {[NoParams EXCEPT !.file_path = Some(PF)], NoParams}

ScopeCalls ==
    {Call(n, WithPayload(p)) : n \in {"write_to_file", "edit", "read_file"},
                               p \in ScopeParams}
    \cup {Call("select_active_intent", [NoParams EXCEPT !.intent_id = Some(i)]) :
             i \in {Int1, Int2}}

InitScope ==
    InitWith(ScopeCalls, {FilesOf(CX, CX)},
             {CanonicalRegistry, DirectRegistry, MissingRegistry},
             {BypassInt2}, OneTask)

SpecScope == InitScope /\ [][Next]_vars

TraceCalls ==
    {Call("write_to_file", [NoParams EXCEPT !.path = Some(AF), !.content = Some(c),
                                            !.intent_id = i]) :
        c \in {CX, EmptyContent}, i \in {None, Some(Int1), Some(Int2)}}
    \cup {Call("apply_diff", [NoParams EXCEPT !.path = Some(AF), !.diff = Some(CY)]),
          Call("edit", [NoParams EXCEPT !.path = Some(AF), !.new_string = Some(CY),
                                        !.intent_id = Some(Int2)]),
          Call("read_file", [NoParams EXCEPT !.path = Some(AF)])}
    \cup {Call("select_active_intent", [NoParams EXCEPT !.intent_id = Some(i)]) :
             i \in {Int1, Int2}}

InitTrace ==
    InitWith(TraceCalls, {FilesOf(Absent, Absent), FilesOf(CX, Absent)},
             {CanonicalRegistry}, {NoIgnoreFile}, OneTask)

SpecTrace == InitTrace /\ [][Next]_vars

\* contents with two refactor signals and no evolution signal, and with
\* an evolution signal
CRefactor == <<"+import a", "+// c">>
CEvolution == <<"+function f(">>

ClassifyCalls ==
    {Call("write_to_file", [NoParams EXCEPT !.path = Some(AF), !.content = Some(c),
                                            !.mutation_class = mc]) :
        c \in {CX, CRefactor, CEvolution},
        mc \in {None, Some("AST_REFACTOR"), Some("INTENT_EVOLUTION")}}
    \cup {Call("edit", [NoParams EXCEPT !.path = Some(AF), !.new_string = Some(CRefactor)]),
          Call("select_active_intent", [NoParams EXCEPT !.intent_id = Some(Int1)])}

InitClassify ==
    InitWith(ClassifyCalls, {FilesOf(Absent, Absent), FilesOf(CX, Absent)},
             {CanonicalRegistry}, {NoIgnoreFile}, OneTask)

SpecClassify == InitClassify /\ [][Next]_vars

----------------------------------------------------------------------------
(* Properties *)

\* the hook ids of the invocations recorded for task a's current call
TrailHooks(a) == [i \in DOMAIN trail[a] |-> trail[a][i].hook]

\* C1: in runPreHooks, when the k-th registered hook returns blocked, the
\* hooks invoked for the call are exactly hooks 1..k (none of k+1..N), the
\* result returned is hook k's result, and the tool is not executed.
C1_BlockHalts ==
    \A a \in Tasks : \A k \in DOMAIN trail[a] :
        trail[a][k].result.blocked =>
            /\ Len(trail[a]) = k
            /\ TrailHooks(a) = SubSeq(HookIds(hooks), 1, k)
            /\ pc[a] = "done"
            /\ preResult[a] = trail[a][k].result
            /\ ~execLog[a].executed

\* a call blocked by the second hook of six, with hooks 3..6 never invoked
C1_Witness ==
    \E a \in Tasks :
        /\ pc[a] = "done"
        /\ preResult[a].blocked
        /\ Len(trail[a]) = 2
        /\ trail[a][2].hook = LockId
        /\ Len(hooks) = 6

\* C2: no tool call whose tool is in DESTRUCTIVE_TOOLS passes the pre-phase
\* and reaches execution while the task's activeIntentId is unset.
C2_IntentBeforeDestructive ==
    \A a \in Tasks :
        (pc[a] = "exec" \/ execLog[a].executed) /\ block[a].name \in DESTRUCTIVE_TOOLS
            => activeIntentId[a] # Undefined


\* task a's call is a write whose tool has run and written its target
WriteExecuted(a) ==
    /\ block[a].name \in writeTools
    /\ execLog[a].executed
    /\ execLog[a].ok

\* C3: a write-tool call that supplies a non-empty expected_hash executes
\* its write only if the target's content hash at the moment of the write
\* equals expected_hash; in particular, of two agents that both issue a
\* write of the same file with the same expected_hash, at most one write is
\* executed.
C3_OptimisticCas ==
    /\ \A a \in Tasks :
          WriteExecuted(a) /\ Truthy(LockExpectedHash(block[a]))
              => execLog[a].hashAtWrite = Get(LockExpectedHash(block[a]))
    /\ \A a, b \in Tasks :
          /\ a # b
          /\ WriteExecuted(a) /\ WriteExecuted(b)
          /\ execLog[a].target = execLog[b].target
          /\ Truthy(LockExpectedHash(block[a]))
          => LockExpectedHash(block[a]) # LockExpectedHash(block[b])


\* the step in which hook id returns its result for task a's call
HookReturns(a, id) ==
    /\ pc[a] \in {"pre", "modal"}
    /\ hooks[hookIdx[a]].id = id
    /\ Len(trail'[a]) = Len(trail[a]) + 1

\* the result that step recorded
Returned(a) == trail'[a][Len(trail'[a])].result

\* params.path || params.file_path
SuppliedPath(blk) ==
    IF IsSome(blk.params.path) /\ Get(blk.params.path) # EmptyStr
    THEN blk.params.path
    ELSE IF IsSome(blk.params.file_path) /\ Get(blk.params.file_path) # EmptyStr
         THEN blk.params.file_path
         ELSE None

\* the registry entry of the intent, as a sequence of at most one intent
RegistryEntry(reg, intentId) ==
    IF reg.exists /\ reg.parses /\ (\E i \in DOMAIN reg.intents : reg.intents[i].id = intentId)
    THEN <<reg.intents[CHOOSE i \in DOMAIN reg.intents :
                          /\ reg.intents[i].id = intentId
                          /\ \A j \in 1..(i - 1) : reg.intents[j].id # intentId]>>
    ELSE <<>>

\* the owned_scope patterns of a registry entry, <<>> when it has none
OwnedPatterns(entry) ==
    IF entry # <<>> /\ IsSome(entry[1].owned_scope) THEN Get(entry[1].owned_scope)
    ELSE <<>>

\* C4: for a write tool with an active intent whose owned_scope is
\* non-empty, the Scope Enforcement hook passes only if the file denoted by
\* the supplied path (resolved against the workspace root, "." and ".."
\* resolved) matches some owned_scope pattern.
C4_ScopeConfinement ==
    [][\A a \in Tasks :
          LET blk == currentBlock[a]
              owned == OwnedPatterns(RegistryEntry(registry, activeIntentId[a]))
          IN  /\ HookReturns(a, ScopeId)
              /\ blk.name \in writeTools
              /\ activeIntentId[a] # Undefined
              /\ IsSome(SuppliedPath(blk))
              /\ "scope:readFailed" \notin ioLog'[a]
              /\ owned # <<>>
              /\ ~Returned(a).blocked
              => \E i \in DOMAIN owned :
                    matchesScope(Denoted(ResolveAbs(Get(SuppliedPath(blk)))), owned[i])
      ]_vars

\* expected_hash: native_args first, else params
SuppliedHash(blk) ==
    IF IsSome(blk.nativeArgs) /\ IsSome(Get(blk.nativeArgs).expected_hash)
    THEN Get(blk.nativeArgs).expected_hash
    ELSE blk.params.expected_hash

\* the call is a write-tool call with a non-empty expected_hash and a path
LockApplies(blk) ==
    /\ blk.name \in writeTools
    /\ IsSome(SuppliedHash(blk))
    /\ Get(SuppliedHash(blk)) # EmptyStr
    /\ LockRawFilePath(blk) # EmptyStr

\* the current content of the file the call targets, Absent when missing
LockTarget(blk, fs) == FileAt(fs, ResolveAbs(LockRawFilePath(blk)))

\* C5: the Optimistic Lock hook blocks iff the tool is a write tool,
\* expected_hash (native_args first, else params) is non-empty, a path is
\* present, and the file is missing or is readable with a hash other than
\* expected_hash; every block carries STALE_FILE, with the current hash in
\* the recovery hint on a mismatch; with an absent hash or a non-write tool
\* the hook reads no file.
C5_LockBlocksIff ==
    [][\A a \in Tasks :
          HookReturns(a, LockId) =>
             LET blk == currentBlock[a]
                 r == Returned(a)
                 cur == LockTarget(blk, files)
             IN  /\ r.blocked <=>
                       /\ LockApplies(blk)
                       /\ \/ cur = Absent
                          \/ /\ "lock:readFailed" \notin ioLog'[a]
                             /\ hashContent(cur) # Get(SuppliedHash(blk))
                 /\ r.blocked => CodeOf(r) = "STALE_FILE"
                 /\ r.blocked /\ cur # Absent =>
                       /\ "hash" \in DOMAIN r.errorMessage.recovery_hint
                       /\ r.errorMessage.recovery_hint.hash = hashContent(cur)
                 /\ (blk.name \notin writeTools
                        \/ ~IsSome(SuppliedHash(blk))
                        \/ Get(SuppliedHash(blk)) = EmptyStr)
                       => ioLog'[a] \cap {"lock:exists", "lock:readFile"} = {}
      ]_vars

\* the lock blocked a write whose expected hash differs from the file's
C5_Witness ==
    \E a \in Tasks :
        /\ Len(trail[a]) = 2
        /\ trail[a][2].hook = LockId
        /\ trail[a][2].result.blocked
        /\ "hash" \in DOMAIN trail[a][2].result.errorMessage.recovery_hint
        /\ IsSome(currentBlock[a].nativeArgs)

\* another task's write has changed the file task a's call targets
ChangedByOther(a) ==
    \E b \in Tasks \ {a} :
        /\ WriteExecuted(b)
        /\ execLog[b].target = Denoted(ResolveAbs(LockRawFilePath(currentBlock[a])))

\* task a's call is a write with an expected hash that the file, changed by
\* another writer, no longer has, and the lock hook is returning for it
StaleAtLock(a) ==
    /\ HookReturns(a, LockId)
    /\ LockApplies(currentBlock[a])
    /\ ChangedByOther(a)
    /\ hashContent(LockTarget(currentBlock[a], files)) # Get(SuppliedHash(currentBlock[a]))

\* the call of task a ends blocked with STALE_FILE, its tool not executed
EndsStale(a) ==
    /\ Returned(a).blocked
    /\ CodeOf(Returned(a)) = "STALE_FILE"
    /\ pc'[a] = "done"
    /\ preResult'[a] = Returned(a)
    /\ ~execLog'[a].executed

\* C6 as stated: a write with expected_hash = H, issued after another writer
\* changed the file, is blocked with STALE_FILE and its tool is not executed.
C6_StaleWriteBlocked ==
    [][\A a \in Tasks : StaleAtLock(a) => EndsStale(a)]_vars

\* C6 amended: the same, provided the hook's read of the file succeeds.
C6_StaleWriteBlockedIfReadable ==
    [][\A a \in Tasks :
          StaleAtLock(a) /\ "lock:readFailed" \notin ioLog'[a] => EndsStale(a)]_vars

\* a stale writer was stopped after the other task's write landed
C6_Witness ==
    \E a \in Tasks : \E b \in Tasks \ {a} :
        /\ pc[a] = "done"
        /\ preResult[a].blocked
        /\ CodeOf(preResult[a]) = "STALE_FILE"
        /\ trail[a][Len(trail[a])].hook = LockId
        /\ ~execLog[a].executed
        /\ WriteExecuted(b)
        /\ execLog[b].target = AF
        /\ files[AF] = CY

\* C7: the Scope Enforcement hook blocks iff the tool is a write tool, an
\* intent is active, path / file_path is present, the intent is found in the
\* registry, its owned_scope is non-empty and no pattern matches the
\* workspace-relative path; a block carries SCOPE_VIOLATION, the path in the
\* message and the patterns in the hint; a non-write tool passes without
\* reading the registry.
C7_ScopeBlocksIff ==
    [][\A a \in Tasks :
          HookReturns(a, ScopeId) =>
             LET blk == currentBlock[a]
                 r == Returned(a)
                 entry == IF "scope:readFailed" \in ioLog'[a] THEN <<>>
                          ELSE RegistryEntry(registry, activeIntentId[a])
                 owned == OwnedPatterns(entry)
                 rel == ScopeRelativeFilePath(Get(SuppliedPath(blk)))
             IN  /\ r.blocked <=>
                       /\ blk.name \in writeTools
                       /\ activeIntentId[a] # Undefined
                       /\ IsSome(SuppliedPath(blk))
                       /\ entry # <<>>
                       /\ owned # <<>>
                       /\ \A i \in DOMAIN owned : ~matchesScope(rel, owned[i])
                 /\ r.blocked =>
                       /\ CodeOf(r) = "SCOPE_VIOLATION"
                       /\ r.errorMessage.message.path = rel
                       /\ r.errorMessage.recovery_hint.scope = owned
                 /\ blk.name \notin writeTools =>
                       ioLog'[a] \cap {"scope:exists", "scope:readRegistry"} = {}
      ]_vars

\* the scope hook blocked a write addressed through file_path
C7_Witness ==
    \E a \in Tasks :
        /\ Len(trail[a]) = 3
        /\ trail[a][3].hook = ScopeId
        /\ trail[a][3].result.blocked
        /\ CodeOf(trail[a][3].result) = "SCOPE_VIOLATION"
        /\ ~IsSome(currentBlock[a].params.path)
        /\ pc[a] = "done"

\* the step in which the Authorization hook is invoked for task a's call
AuthInvoked(a) ==
    /\ pc[a] = "pre"
    /\ hooks[hookIdx[a]].id = AuthId
    /\ pc'[a] # "pre" \/ hookIdx'[a] # hookIdx[a]

\* the ids on the lines of .intentignore that are neither blank nor comments
FileBypassSet ==
    IF ignoreFile.exists
    THEN {<<id>> : id \in {i \in {Int1, Int2, Int404, NoIntentLabel} :
                             \E k \in DOMAIN ignoreFile.lines :
                                /\ \E j \in DOMAIN ignoreFile.lines[k] :
                                      ignoreFile.lines[k][j] = i
                                /\ \A j \in DOMAIN ignoreFile.lines[k] :
                                      ignoreFile.lines[k][j] \in {i, " "}}}
    ELSE {}

C9_ApproveOnly ==
    [][\A a \in Tasks :
          pc[a] = "modal" /\ pc'[a] # "modal" =>
             LET r == Returned(a)
                 answers == ioLog'[a] \cap {"auth:approved", "auth:rejected", "auth:dismissed"}
             IN  /\ HookReturns(a, AuthId)
                 /\ Cardinality(answers) = 1
                 /\ ~r.blocked <=> answers = {"auth:approved"}
                 /\ r.blocked =>
                       /\ CodeOf(r) = "USER_REJECTED_INTENT_EVOLUTION"
                       /\ r.errorMessage.error = "TOOL_REJECTED"
                       /\ pc'[a] = "done"
                       /\ preResult'[a] = r
                       /\ ~execLog'[a].executed
      ]_vars

\* the human dismissed the dialog and the call ended rejected
C9_Witness ==
    \E a \in Tasks :
        /\ pc[a] = "done"
        /\ "auth:dismissed" \in ioLog[a]
        /\ preResult[a].blocked
        /\ CodeOf(preResult[a]) = "USER_REJECTED_INTENT_EVOLUTION"
        /\ ~execLog[a].executed

\* the explicit intent_id of a call (native_args first)
ExplicitIntent(blk) ==
    IF IsSome(blk.nativeArgs) /\ IsSome(Get(blk.nativeArgs).intent_id)
    THEN Get(blk.nativeArgs).intent_id
    ELSE blk.params.intent_id

\* C10: after every successful write-tool call made with an active intent
\* and a target path, the post-phase has appended exactly one line to the
\* ledger (unless the append itself failed); its related list holds
\* {specification, active intent}, and a {requirement, id} entry exactly
\* when the call carried an explicit intent_id other than the active one;
\* this for every content payload, the empty string included.
C10_TraceCompleteness ==
    [][\A a \in Tasks :
          /\ pc[a] = "post"
          /\ pc'[a] = "done" \/ hookIdx'[a] # hookIdx[a]
          /\ WriteExecuted(a)
          /\ activeIntentId[a] # Undefined
          /\ ToolFilePath(block[a]) # EmptyStr
          => IF hooks[hookIdx[a]].id = TraceId /\ "trace:appendFailed" \notin ioLog'[a]
             THEN /\ Len(ledger') = Len(ledger) + 1
                  /\ SubSeq(ledger', 1, Len(ledger)) = ledger
                  /\ LET rel == ledger'[Len(ledger')].files[1].conversations[1].related
                         explicit == ExplicitIntent(block[a])
                         distinct == /\ IsSome(explicit)
                                     /\ Get(explicit) # ""
                                     /\ Get(explicit) # activeIntentId[a]
                     IN  /\ \E i \in DOMAIN rel :
                               rel[i] = [type |-> "specification",
                                         value |-> activeIntentId[a]]
                         /\ (\E i \in DOMAIN rel : rel[i].type = "requirement")
                               <=> distinct
                         /\ \A i \in DOMAIN rel :
                               rel[i].type = "requirement" => rel[i].value = Get(explicit)
             ELSE ledger' = ledger
      ]_vars


\* the step in which the post-phase of task a's call reaches hook id
PostHookRuns(a, id) ==
    /\ pc[a] = "post"
    /\ hooks[hookIdx[a]].id = id
    /\ pc'[a] = "done" \/ hookIdx'[a] # hookIdx[a]

\* the explicit mutation_class of a call (native_args first)
ExplicitMutationClass(blk) ==
    IF IsSome(blk.nativeArgs) /\ IsSome(Get(blk.nativeArgs).mutation_class)
    THEN Get(blk.nativeArgs).mutation_class
    ELSE blk.params.mutation_class

\* the tool of task a's write_to_file call created its target
CreatedFile(a) ==
    /\ block[a].name = "write_to_file"
    /\ WriteExecuted(a)
    /\ execLog[a].hashAtWrite = EmptyStr

\* C11: a write_to_file call that creates a file and carries no explicit
\* mutation_class is traced with mutation_class = INTENT_EVOLUTION,
\* whatever content it wrote.
C11_NewFileIsEvolution ==
    [][\A a \in Tasks :
          /\ PostHookRuns(a, TraceId)
          /\ CreatedFile(a)
          /\ ~IsSome(ExplicitMutationClass(block[a]))
          /\ Len(ledger') = Len(ledger) + 1
          => ledger'[Len(ledger')].files[1].conversations[1].ranges[1].mutation_class
                = "INTENT_EVOLUTION"
      ]_vars


\* C12: the Gatekeeper blocks, with the fixed governance message, exactly
\* when the tool is in its side-effect list and the task has no active
\* intent; it passes otherwise; it reads neither the registry nor any file.
C12_GatekeeperBlocksIff ==
    [][\A a \in Tasks :
          HookReturns(a, GatekeeperId) =>
             LET blk == currentBlock[a]
                 r == Returned(a)
             IN  /\ r.blocked <=>
                       /\ blk.name \in {"write_to_file", "apply_diff", "execute_command",
                                        "insert_content", "search_and_replace",
                                        "browser_action", "use_mcp_tool", "switch_mode",
                                        "new_task"}
                       /\ activeIntentId[a] = Undefined
                 /\ r.blocked =>
                       r.errorMessage = [text |-> "GOVERNANCE ERROR: You must call select_active_intent with a valid Intent ID before using any other tools. Please call select_active_intent first."]
                 /\ ~r.blocked => r.errorMessage = NoError
                 /\ ioLog'[a] = ioLog[a]
                 /\ UNCHANGED <<files, registry, ledger, ignoreFile, intentIgnoreCache>>
      ]_vars

\* the Gatekeeper let a listed tool through for a task with an intent
C12_Witness ==
    \E a \in Tasks :
        /\ currentBlock[a].name = "execute_command"
        /\ activeIntentId[a] # Undefined
        /\ Len(trail[a]) >= 1
        /\ trail[a][1].hook = GatekeeperId
        /\ ~trail[a][1].result.blocked

-----------------------------------------------------------------------------
(* Intent Update: registries at every status *)

IntentAt(id, status) == [Intent(id, None) EXCEPT !.status = status]

IntentStatuses == {"TODO", "IN_PROGRESS", "COMPLETED"}

UpdateRegistries ==
    {RegistryOf(<<IntentAt(Int1, s1), IntentAt(Int2, s2)>>) :
        s1 \in IntentStatuses, s2 \in {"TODO", "COMPLETED"}}
    \cup {MissingRegistry, CorruptRegistry}

UpdateCalls ==
    SelectCalls
    \cup {Call(n, [NoParams EXCEPT !.path = Some(AF)]) :
            n \in {"attempt_completion", "read_file"}}
    \cup {Call("write_to_file", [NoParams EXCEPT !.path = Some(AF), !.content = Some(CY)])}

InitUpdate ==
    InitWith(UpdateCalls, {FilesOf(CX, Absent)}, UpdateRegistries, {NoIgnoreFile}, OneTask)

SpecUpdate == InitUpdate /\ [][Next]_vars

\* the status the Intent Update hook moves an intent to on a call of the name
TargetStatus(name) ==
    IF name = "select_active_intent" THEN "IN_PROGRESS" ELSE "COMPLETED"

\* the Intent Update hook reacts to the call, and the task's active intent
\* is in the registry
UpdateApplies(a) ==
    /\ currentBlock[a].name \in {"select_active_intent", "attempt_completion"}
    /\ activeIntentId[a] # Undefined
    /\ RegistryEntry(registry, activeIntentId[a]) # <<>>

\* from registry reg to registry reg2 the intent of the id has moved to the
\* status and nothing else has changed
OnlyStatusMoved(reg, reg2, intentId, status) ==
    /\ reg2.exists /\ reg2.parses
    /\ DOMAIN reg2.intents = DOMAIN reg.intents
    /\ \A i \in DOMAIN reg.intents :
          reg2.intents[i] = IF reg.intents[i].id = intentId
                            THEN [reg.intents[i] EXCEPT !.status = status]
                            ELSE reg.intents[i]

\* the registry file failed to be read or written during task a's call
UpdateFaulted(log) ==
    log \cap {"update:readFailed", "update:writeFailed"} # {}

\* C13 (as stated): when the post-phase of a select_active_intent (resp.
\* attempt_completion) call reaches the Intent Update hook with the task's
\* active intent I in the registry, I is IN_PROGRESS (resp. COMPLETED)
\* afterwards and every other intent is unchanged; for any other tool name,
\* an unset active intent or an I absent from the registry, the registry
\* file is not written.
C13_UpdateContract ==
    [][\A a \in Tasks :
          PostHookRuns(a, IntentUpdateId)
          => IF UpdateApplies(a)
             THEN OnlyStatusMoved(registry, registry', activeIntentId[a],
                                  TargetStatus(currentBlock[a].name))
             ELSE /\ registry' = registry
                  /\ "update:writeRegistry" \notin ioLog'[a]]_vars

\* C13 (amended): the same, provided the reads and the write of the registry
\* file succeed; when one fails the registry is left as it was.
C13_UpdateContractIfIoSucceeds ==
    [][\A a \in Tasks :
          PostHookRuns(a, IntentUpdateId)
          => IF UpdateApplies(a)
             THEN IF UpdateFaulted(ioLog'[a])
                  THEN registry' = registry
                  ELSE OnlyStatusMoved(registry, registry', activeIntentId[a],
                                       TargetStatus(currentBlock[a].name))
             ELSE /\ registry' = registry
                  /\ "update:writeRegistry" \notin ioLog'[a]]_vars

\* an attempt_completion has moved the active intent to COMPLETED, and the
\* other intent is where it started
C13_Witness ==
    \E a \in Tasks :
        /\ pc[a] = "done"
        /\ currentBlock[a].name = "attempt_completion"
        /\ activeIntentId[a] = Int1
        /\ "update:writeRegistry" \in ioLog[a]
        /\ RegistryEntry(registry, Int1) # <<>>
        /\ RegistryEntry(registry, Int1)[1].status = "COMPLETED"
        /\ RegistryEntry(registry, Int2)[1].status = "TODO"

\* the Intent Update hook run once more on the same call of task a, from the
\* registry reg, never writes the registry file, whatever its reads do
RepeatDoesNotWrite(a, reg) ==
    \A readOk \in BOOLEAN, writeOk \in BOOLEAN :
        LET again == IntentUpdateHook_onPostExecute(
                         SelectActiveIntentTool_execute(activeIntentId[a],
                             currentBlock[a], reg, readOk),
                         currentBlock[a], reg, readOk, writeOk)
        IN /\ ~again.wrote
           /\ again.registry = reg
           /\ again.io \cap {"update:writeRegistry", "update:writeFailed"} = {}

\* the active intent of task a is in the registry with the status
ActiveIntentAt(a, status) ==
    /\ RegistryEntry(registry, activeIntentId[a]) # <<>>
    /\ RegistryEntry(registry, activeIntentId[a])[1].status = status

\* the call of task a selects the intent that is already its active intent
SelectsActive(a) ==
    /\ currentBlock[a].name = "select_active_intent"
    /\ currentBlock[a].params.intent_id = Some(activeIntentId[a])

\* C14 (as stated): when the Intent Update hook runs on a select_active_intent
\* whose intent is already IN_PROGRESS, or on an attempt_completion whose
\* intent is already COMPLETED, it does not write the registry file; and when
\* it runs on a selection of an intent at TODO it writes the registry, and
\* the same selection issued again right after does not.
C14_UpdateIdempotent ==
    [][\A a \in Tasks :
          PostHookRuns(a, IntentUpdateId) /\ UpdateApplies(a)
          => /\ ActiveIntentAt(a, TargetStatus(currentBlock[a].name))
                => /\ registry' = registry
                   /\ ioLog'[a] \cap {"update:writeRegistry", "update:writeFailed"} = {}
             /\ SelectsActive(a) /\ ActiveIntentAt(a, "TODO")
                => /\ "update:writeRegistry" \in ioLog'[a]
                   /\ RepeatDoesNotWrite(a, registry')]_vars

\* C14 (amended): the same, the second part provided the first selection's
\* read and write of the registry file succeed.
C14_UpdateIdempotentIfIoSucceeds ==
    [][\A a \in Tasks :
          PostHookRuns(a, IntentUpdateId) /\ UpdateApplies(a)
          => /\ ActiveIntentAt(a, TargetStatus(currentBlock[a].name))
                => /\ registry' = registry
                   /\ ioLog'[a] \cap {"update:writeRegistry", "update:writeFailed"} = {}
             /\ SelectsActive(a) /\ ActiveIntentAt(a, "TODO")
                /\ ~UpdateFaulted(ioLog'[a])
                => /\ "update:writeRegistry" \in ioLog'[a]
                   /\ RepeatDoesNotWrite(a, registry')]_vars

\* a second selection of the intent the first one moved to IN_PROGRESS has
\* gone through the Intent Update hook without a write
C14_Witness ==
    \E a \in Tasks :
        /\ pc[a] = "done"
        /\ callsLeft[a] = MaxCalls - 2
        /\ SelectsActive(a)
        /\ activeIntentId[a] = Int2
        /\ registry = RegistryOf(<<IntentAt(Int1, "TODO"), IntentAt(Int2, "IN_PROGRESS")>>)
        /\ postTrail[a] # <<>>
        /\ "update:readRegistry" \in ioLog[a]
        /\ ioLog[a] \cap {"update:writeRegistry", "update:writeFailed",
                          "update:readFailed"} = {}

\* the rank of a status in the order TODO < IN_PROGRESS < COMPLETED
StatusRank(status) ==
    CASE status = "TODO" -> 0
      [] status = "IN_PROGRESS" -> 1
      [] OTHER -> 2

\* the registry can be read before and after the step and lists the same ids
SameIntents ==
    /\ registry.exists /\ registry.parses
    /\ registry'.exists /\ registry'.parses
    /\ DOMAIN registry'.intents = DOMAIN registry.intents
    /\ \A i \in DOMAIN registry.intents : registry'.intents[i].id = registry.intents[i].id

-----------------------------------------------------------------------------
(* Hook Engine: an engine that also holds hooks of other classes *)

\* the registrations: the import of core/hooks/index.ts, two stub hooks, a
\* second initializeHooks(), and a last stub hook
EngineLog ==
    NewHooks(CanonicalHooks, 0)
    \o <<NewHook(RetargetId, 7), NewHook(ThrowingId, 8)>>
    \o NewHooks(CanonicalHooks, 8)
    \o <<NewHook(PayloadId, 15)>>

\* Retarget, Throwing, the six system hooks, Payload
EngineHooks == RegisterEach(<<>>, EngineLog)

EngineCalls ==
    {Call("select_active_intent", [NoParams EXCEPT !.intent_id = Some(i)]) :
        i \in {Int1, Int2}}
    \cup {Call(n, [NoParams EXCEPT !.path = Some(p), !.content = Some(CX)]) :
            n \in {"write_to_file", "read_file"}, p \in {AF, PF}}

InitEngine ==
    InitFrom(EngineHooks, EngineLog, EngineCalls,
             {FilesOf(CX, Absent), FilesOf(CX, CX)}, {CanonicalRegistry},
             {NoIgnoreFile}, OneTask)

SpecEngine == InitEngine /\ [][Next]_vars

\* the ids of the registered hooks that define onPostExecute, among the
\* first n hooks, in registration order
PostHandlers(n) ==
    SelectSeq(SubSeq(HookIds(hooks), 1, n), LAMBDA id : HasPostHandler(id))

\* the ids of the post-hooks invoked for task a's call, in order
PostTrailHooks(a) == [i \in DOMAIN postTrail[a] |-> postTrail[a][i].hook]

\* C16: runPostHooks invokes the onPostExecute of every registered hook that
\* defines one, exactly once and in registration order, also after one of
\* them threw or failed to write; the phase always ends, and none of its
\* steps changes the result of the pre-phase or the outcome of the tool.
C16_PostHooksIndependent ==
    /\ [](\A a \in Tasks :
            /\ pc[a] = "post" => PostTrailHooks(a) = PostHandlers(hookIdx[a] - 1)
            /\ pc[a] = "done" /\ execLog[a].executed
                  => PostTrailHooks(a) = PostHandlers(Len(hooks)))
    /\ [][\A a \in Tasks :
             pc[a] = "post"
             => /\ pc'[a] = "done" \/ (pc'[a] = "post" /\ hookIdx'[a] = hookIdx[a] + 1)
                /\ pc'[a] = "done" <=> hookIdx[a] = Len(hooks)
                /\ preResult'[a] = preResult[a]
                /\ execLog'[a] = execLog[a]
                /\ files' = files]_vars

\* a post-phase has ended in which the stub's onPostExecute threw and the
\* ledger append failed, the hooks after the stub having run
C16_Witness ==
    \E a \in Tasks :
        /\ pc[a] = "done"
        /\ execLog[a].executed
        /\ \E k \in DOMAIN postTrail[a] :
              /\ postTrail[a][k].hook = ThrowingId
              /\ postTrail[a][k].threw
              /\ k < Len(postTrail[a])
        /\ postTrail[a][Len(postTrail[a])].hook = TraceId
        /\ "trace:appendFailed" \in ioLog[a]

\* the block the engine holds after the first j hook invocations of task a's
\* call: the latest transformedBlock returned, or the original block
RECURSIVE LatestBlock(_, _)
LatestBlock(a, j) ==
    IF j = 0 THEN block[a]
    ELSE IF IsSome(trail[a][j].transformedBlock)
         THEN Get(trail[a][j].transformedBlock)
         ELSE LatestBlock(a, j - 1)

\* C17: in runPreHooks each hook is invoked with the transformedBlock of the
\* most recent earlier hook that returned one, or with the original block;
\* when no hook blocks, the result is not blocked and carries that latest
\* block, and the tool acts on it.
C17_TransformedBlockSeen ==
    \A a \in Tasks :
        /\ \A k \in DOMAIN trail[a] : trail[a][k].block = LatestBlock(a, k - 1)
        /\ pc[a] \in {"exec", "post"} \/ (pc[a] = "done" /\ execLog[a].executed)
              => /\ ~preResult[a].blocked
                 /\ Len(trail[a]) = Len(hooks)
                 /\ currentBlock[a] = LatestBlock(a, Len(trail[a]))
        /\ execLog[a].executed /\ execLog[a].ok /\ currentBlock[a].name \in writeTools
              => execLog[a].target
                    = Denoted(ResolveAbs(ToolFilePath(LatestBlock(a, Len(trail[a])))))

\* a write of a/f has been redirected to p/f by the first hook, passed the
\* system hooks as a write of p/f, had its payload replaced by the last hook
\* and been executed as such
C17_Witness ==
    \E a \in Tasks :
        /\ pc[a] = "done"
        /\ block[a] = Call("write_to_file", [NoParams EXCEPT !.path = Some(AF),
                                                              !.content = Some(CX)])
        /\ Len(trail[a]) = Len(hooks)
        /\ trail[a][2].block.params.path = Some(PF)
        /\ trail[a][Len(hooks)].block.params.content = Some(CX)
        /\ currentBlock[a].params.content = Some(StubPayload)
        /\ execLog[a].ok
        /\ execLog[a].target = PF
        /\ files[PF] = StubPayload
        /\ files[AF] = CX

-----------------------------------------------------------------------------
(* Hook Engine: registration *)

\* the registrations of a run are bounded by the number of hooks constructed
MaxRegLog == 12

\* the classes registered one at a time: a system hook and another hook
ReloadedIds == {GatekeeperId, RetargetId}

\* engine.registerHook(new C()) for the class of the id
RegisterHook(id) ==
    /\ Len(regLog) + 1 <= MaxRegLog
    /\ hooks' = registerHook(hooks, NewHook(id, Len(regLog) + 1))
    /\ regLog' = Append(regLog, NewHook(id, Len(regLog) + 1))
    /\ UNCHANGED <<authVars, evaluated, lessonVars, updateVars>>
    /\ UNCHANGED <<files, registry, ledger, ignoreFile, intentIgnoreCache,
                   intentIgnorePath, activeIntentId, pc, block, currentBlock,
                   hookIdx, preResult, callsLeft, toolCalls, trail, ioLog, execLog,
                   postTrail>>

\* initializeHooks()
InitializeHooks ==
    /\ Len(regLog) + Len(CanonicalHooks) <= MaxRegLog
    /\ hooks' = initializeHooks(hooks, Len(regLog))
    /\ regLog' = regLog \o NewHooks(CanonicalHooks, Len(regLog))
    /\ UNCHANGED <<authVars, evaluated, lessonVars, updateVars>>
    /\ UNCHANGED <<files, registry, ledger, ignoreFile, intentIgnoreCache,
                   intentIgnorePath, activeIntentId, pc, block, currentBlock,
                   hookIdx, preResult, callsLeft, toolCalls, trail, ioLog, execLog,
                   postTrail>>

NextRegistry ==
    \/ \E id \in ReloadedIds : RegisterHook(id)
    \/ InitializeHooks

\* the engine as constructed (hooks = []), no task running
InitRegistry ==
    InitFrom(<<>>, <<>>, {}, {FilesOf(Absent, Absent)}, {MissingRegistry},
             {NoIgnoreFile}, [a \in Tasks |-> 0])

SpecRegistry == InitRegistry /\ [][NextRegistry]_vars

\* the id is that of one of the six system hooks
IsSystemHook(id) == \E i \in DOMAIN CanonicalHooks : CanonicalHooks[i] = id

\* nothing but initializeHooks() has registered hooks, and it has run
OnlyInitializeHooksRan ==
    /\ regLog # <<>>
    /\ Len(regLog) % Len(CanonicalHooks) = 0
    /\ \A i \in DOMAIN regLog :
          regLog[i].id = CanonicalHooks[((i - 1) % Len(CanonicalHooks)) + 1]

\* C18: after initializeHooks() has run once or repeatedly on the engine, the
\* engine holds exactly six hooks, in the order Gatekeeper, OptimisticLock,
\* ScopeEnforcement, Authorization, IntentUpdate, TraceWriter; and a run of
\* initializeHooks() on an engine whose system hooks are out of that order
\* restores it.
C18_CanonicalAfterInitialize ==
    /\ [](OnlyInitializeHooksRan => HookIds(hooks) = CanonicalHooks)
    /\ [][regLog' = regLog \o NewHooks(CanonicalHooks, Len(regLog))
          => SelectSeq(HookIds(hooks'), IsSystemHook) = CanonicalHooks]_vars

\* initializeHooks() has run twice and the engine holds the six hooks of the
\* second run
C18_Witness ==
    /\ OnlyInitializeHooksRan
    /\ Len(regLog) = 2 * Len(CanonicalHooks)
    /\ hooks = NewHooks(CanonicalHooks, Len(CanonicalHooks))

\* C19: a registerHook call with a hook whose id is already registered
\* leaves the sequence of hook ids of the engine as it was.
C19_ReplacesInPlace ==
    [][\A id \in ReloadedIds :
          /\ hooks' = registerHook(hooks, NewHook(id, Len(regLog) + 1))
          /\ regLog' = Append(regLog, NewHook(id, Len(regLog) + 1))
          /\ \E i \in DOMAIN hooks : hooks[i].id = id
          => HookIds(hooks') = HookIds(hooks)]_vars

\* the last hook registered under the id, as a sequence of at most one hook
LastRegistered(id) ==
    IF \E i \in DOMAIN regLog : regLog[i].id = id
    THEN <<regLog[CHOOSE i \in DOMAIN regLog :
                     /\ regLog[i].id = id
                     /\ \A j \in (i + 1)..Len(regLog) : regLog[j].id # id]>>
    ELSE <<>>

\* C20: after any sequence of registerHook calls the ids of the hooks the
\* engine holds are pairwise distinct, every id registered is held, and the
\* hook held under an id is the one most recently registered under it.
C20_UniqueIdsLatestHook ==
    /\ \A i, j \in DOMAIN hooks : hooks[i].id = hooks[j].id => i = j
    /\ \A i \in DOMAIN hooks : <<hooks[i]>> = LastRegistered(hooks[i].id)
    /\ \A i \in DOMAIN regLog : \E j \in DOMAIN hooks : hooks[j].id = regLog[i].id

\* a system hook has been registered by initializeHooks() and then again on
\* its own, and the engine holds the later one
C20_Witness ==
    /\ Len(regLog) = Len(CanonicalHooks) + 2
    /\ regLog[1].id = GatekeeperId
    /\ regLog[Len(regLog)].id = GatekeeperId
    /\ regLog[Len(regLog) - 1].id = RetargetId
    /\ Len(hooks) = Len(CanonicalHooks) + 1
    /\ \E i \in DOMAIN hooks : hooks[i] = NewHook(GatekeeperId, Len(regLog))

-----------------------------------------------------------------------------
(* AuthorizationHook.loadIntentIgnore, one await per step *)

\* a second workspace root, /v
OtherWorkspaceRoot == <<"/", "v">>

Workspaces == {WorkspaceRoot, OtherWorkspaceRoot}

\* path.join(workspaceRoot, ".orchestration", ".intentignore")
IgnorePathOf(workspaceRoot) == PathJoin(workspaceRoot, <<".", "o", "/", ".", "i">>)

\* "INT-001\n"
BypassInt1 == [exists |-> TRUE, lines |-> << <<Int1>>, <<>> >>]

IgnoreFileStates == {NoIgnoreFile, BypassInt1, BypassInt2}

\* the .intentignore a frame's path names
IgnoreFileAt(ignorePath) ==
    workspace.ignore[CHOOSE w \in Workspaces : IgnorePathOf(w) = Get(ignorePath)]

\* lines 25-36 and the call of fileExistsAtPath: task a's onPreExecute calls
\* loadIntentIgnore(getWorkspacePath())
LoadStart(a) ==
    /\ loadFrame[a].at \in {"idle", "returned"}
    /\ LET ignorePath == Some(IgnorePathOf(workspace.current))
           pathChanged == intentIgnorePath # ignorePath
           cache == IF pathChanged THEN None ELSE intentIgnoreCache
       IN /\ intentIgnorePath' = ignorePath
          /\ intentIgnoreCache' = cache
          /\ loadFrame' = [loadFrame EXCEPT ![a] =
                IF IsSome(cache)
                THEN [NoFrame EXCEPT !.at = "returned", !.ignorePath = ignorePath,
                                     !.ignored = Get(cache),
                                     !.stale = cacheGhost.stale
                                               \/ cacheGhost.from # ignorePath]
                ELSE [NoFrame EXCEPT !.at = "exists", !.ignorePath = ignorePath]]
          /\ cacheGhost' = IF pathChanged THEN NoCacheGhost ELSE cacheGhost
    /\ UNCHANGED <<lessonVars, updateVars, evaluated, workspace, hooks, regLog, files, registry, ledger, ignoreFile,
                   activeIntentId, pc, block, currentBlock, hookIdx, preResult,
                   callsLeft, toolCalls, trail, ioLog, execLog, postTrail>>

\* lines 40-43: fileExistsAtPath resolves and the load goes on to readFile,
\* or caches the empty set
LoadExists(a) ==
    /\ loadFrame[a].at = "exists"
    /\ IF IgnoreFileAt(loadFrame[a].ignorePath).exists
       THEN /\ loadFrame' = [loadFrame EXCEPT ![a].at = "read"]
            /\ UNCHANGED <<intentIgnoreCache, cacheGhost>>
       ELSE /\ loadFrame' = [loadFrame EXCEPT ![a].at = "returned"]
            /\ intentIgnoreCache' = Some({})
            /\ cacheGhost' = [cacheGhost EXCEPT !.from = loadFrame[a].ignorePath,
                                                !.stale = loadFrame[a].stale]
    /\ UNCHANGED <<lessonVars, updateVars, evaluated, workspace, intentIgnorePath, hooks, regLog, files, registry,
                   ledger, ignoreFile, activeIntentId, pc, block, currentBlock,
                   hookIdx, preResult, callsLeft, toolCalls, trail, ioLog, execLog,
                   postTrail>>

\* line 46: fs.readFile reads the file (or fails); its promise is settled
\* but the load has not resumed yet
LoadRead(a, readOk) ==
    /\ loadFrame[a].at = "read"
    /\ LET file == IgnoreFileAt(loadFrame[a].ignorePath)
       IN loadFrame' = [loadFrame EXCEPT ![a].at = "resume",
                                         ![a].raw = IF readOk /\ file.exists
                                                    THEN Some(file.lines) ELSE None]
    /\ cacheGhost' = [cacheGhost EXCEPT !.reads = @ + 1]
    /\ UNCHANGED <<lessonVars, updateVars, evaluated, workspace, intentIgnoreCache, intentIgnorePath, hooks, regLog,
                   files, registry, ledger, ignoreFile, activeIntentId, pc, block,
                   currentBlock, hookIdx, preResult, callsLeft, toolCalls, trail,
                   ioLog, execLog, postTrail>>

\* lines 47-59: the load resumes after the await, parses what was read (or
\* catches the failure), caches the set and returns it
LoadResume(a) ==
    /\ loadFrame[a].at = "resume"
    /\ LET ignored == IF IsSome(loadFrame[a].raw)
                      THEN ParseIntentIgnore(Get(loadFrame[a].raw)) ELSE {}
       IN /\ intentIgnoreCache' = Some(ignored)
          /\ loadFrame' = [loadFrame EXCEPT ![a].at = "returned",
                                            ![a].ignored = ignored]
    /\ cacheGhost' = [cacheGhost EXCEPT !.from = loadFrame[a].ignorePath,
                                        !.stale = loadFrame[a].stale]
    /\ UNCHANGED <<lessonVars, updateVars, evaluated, workspace, intentIgnorePath, hooks, regLog, files, registry,
                   ledger, ignoreFile, activeIntentId, pc, block, currentBlock,
                   hookIdx, preResult, callsLeft, toolCalls, trail, ioLog, execLog,
                   postTrail>>

\* invalidateCache(): a load that has already read the file has read it
\* before this invalidation
InvalidateCache ==
    /\ intentIgnoreCache' = None
    /\ loadFrame' = [a \in Tasks |->
                        IF loadFrame[a].at = "resume"
                        THEN [loadFrame[a] EXCEPT !.stale = TRUE]
                        ELSE loadFrame[a]]
    /\ cacheGhost' = NoCacheGhost
    /\ UNCHANGED <<lessonVars, updateVars, evaluated, workspace, intentIgnorePath, hooks, regLog, files, registry,
                   ledger, ignoreFile, activeIntentId, pc, block, currentBlock,
                   hookIdx, preResult, callsLeft, toolCalls, trail, ioLog, execLog,
                   postTrail>>

\* someone edits the .intentignore of a workspace
WriteIgnoreFile(w, file) ==
    /\ workspace.ignore[w] # file
    /\ workspace' = [workspace EXCEPT !.ignore[w] = file]
    /\ UNCHANGED <<lessonVars, updateVars, evaluated, loadFrame, cacheGhost, intentIgnoreCache, intentIgnorePath,
                   hooks, regLog, files, registry, ledger, ignoreFile,
                   activeIntentId, pc, block, currentBlock, hookIdx, preResult,
                   callsLeft, toolCalls, trail, ioLog, execLog, postTrail>>

\* getWorkspacePath() starts to answer with another workspace
SwitchWorkspace(w) ==
    /\ workspace.current # w
    /\ workspace' = [workspace EXCEPT !.current = w]
    /\ UNCHANGED <<lessonVars, updateVars, evaluated, loadFrame, cacheGhost, intentIgnoreCache, intentIgnorePath,
                   hooks, regLog, files, registry, ledger, ignoreFile,
                   activeIntentId, pc, block, currentBlock, hookIdx, preResult,
                   callsLeft, toolCalls, trail, ioLog, execLog, postTrail>>

NextIgnore ==
    \/ \E a \in Tasks : LoadStart(a)
    \/ \E a \in Tasks : LoadExists(a)
    \/ \E a \in Tasks, readOk \in BOOLEAN : LoadRead(a, readOk)
    \/ \E a \in Tasks : LoadResume(a)
    \/ InvalidateCache
    \/ \E w \in Workspaces, file \in IgnoreFileStates : WriteIgnoreFile(w, file)
    \/ \E w \in Workspaces : SwitchWorkspace(w)

\* the hook as constructed (cache and path null), two workspaces
InitIgnore ==
    /\ InitKernel(initializeHooks(<<>>, 0), NewHooks(CanonicalHooks, 0), {},
                  {FilesOf(Absent, Absent)}, {CanonicalRegistry}, {NoIgnoreFile},
                  [a \in Tasks |-> 0])
    /\ workspace \in [current : {WorkspaceRoot},
                      ignore : [Workspaces -> {NoIgnoreFile, BypassInt1}]]
    /\ loadFrame = [a \in Tasks |-> NoFrame]
    /\ cacheGhost = NoCacheGhost
    /\ evaluated = NoEvaluation
    /\ claudeMd = None
    /\ lessonLog = NoLessons
    /\ updateData = NoUpdateData

SpecIgnore == InitIgnore /\ [][NextIgnore]_vars

\* C21: the bypass set a call of loadIntentIgnore returns for the decision,
\* and the set the cache holds, were read from the .intentignore of the
\* workspace the cache is keyed by, after the most recent invalidateCache()
\* or change of workspace path (a load in flight at that moment does not
\* populate the cache); and between two invalidations the file is read at
\* most once.
C21_BypassCacheCoherent ==
    /\ \A a \in Tasks : loadFrame[a].at = "returned" => ~loadFrame[a].stale
    /\ IsSome(intentIgnoreCache)
          => /\ ~cacheGhost.stale
             /\ cacheGhost.from = intentIgnorePath
    /\ cacheGhost.reads <= 1

-----------------------------------------------------------------------------
(* Degraded reads *)

\* the bypass list was looked for during the call and was absent or
\* unreadable
IgnoreLoadFailed(log) ==
    \/ "auth:readFailed" \in log
    \/ "auth:exists" \in log /\ "auth:readIgnore" \notin log

\* C22: when the Authorization hook, on a DESTRUCTIVE call, finds the
\* .intentignore absent or fails to read it, it neither blocks nor passes on
\* its own: it caches the empty set and shows the modal, whoever the active
\* intent is; the call is then blocked exactly when the answer is not
\* "Approve".
C22_IgnoreFailureMeansNoBypass ==
    [][\A a \in Tasks :
          /\ /\ pc[a] = "pre"
             /\ hooks[hookIdx[a]].id = AuthId
             /\ classifyCommand(currentBlock[a].name) = "DESTRUCTIVE"
             /\ IgnoreLoadFailed(ioLog'[a])
             => /\ pc'[a] = "modal"
                /\ trail'[a] = trail[a]
                /\ preResult'[a] = preResult[a]
                /\ intentIgnoreCache' = Some({})
          /\ /\ pc[a] = "modal"
             /\ IgnoreLoadFailed(ioLog[a])
             /\ pc'[a] # "modal"
             => /\ Returned(a).blocked <=> "auth:approved" \notin ioLog'[a]
                /\ pc'[a] = IF Returned(a).blocked THEN "done"
                            ELSE IF hookIdx[a] = Len(hooks) THEN "exec" ELSE "pre"]_vars

\* the read of a bypass list that names the active intent has failed, and
\* the call is at the modal
C22_Witness ==
    \E a \in Tasks :
        /\ pc[a] = "modal"
        /\ "auth:readFailed" \in ioLog[a]
        /\ activeIntentId[a] = Int2
        /\ ignoreFile = BypassInt2
        /\ intentIgnoreCache = Some({})

\* C23: when the Optimistic Lock hook, on a write with a non-empty
\* expected_hash and a path, finds the file but fails to read it, it returns
\* a result that is not blocked and carries no error, whatever the file's
\* hash, and the pre-phase goes on to the next hook.
C23_UnreadableFilePasses ==
    [][\A a \in Tasks :
          /\ HookReturns(a, LockId)
          /\ LockApplies(currentBlock[a])
          /\ LockTarget(currentBlock[a], files) # Absent
          /\ "lock:readFailed" \in ioLog'[a]
          => /\ ~Returned(a).blocked
             /\ Returned(a).errorMessage = NoError
             /\ pc'[a] = "pre"
             /\ hookIdx'[a] = hookIdx[a] + 1
             /\ preResult'[a] = preResult[a]]_vars

\* the lock hook has passed a write whose expected_hash is not the hash of
\* the file, which it could not read
C23_Witness ==
    \E a \in Tasks :
        /\ trail[a] # <<>>
        /\ trail[a][Len(trail[a])].hook = LockId
        /\ ~trail[a][Len(trail[a])].result.blocked
        /\ "lock:readFailed" \in ioLog[a]
        /\ LockApplies(currentBlock[a])
        /\ LockTarget(currentBlock[a], files) # Absent
        /\ hashContent(LockTarget(currentBlock[a], files))
              # Get(SuppliedHash(currentBlock[a]))

\* C24: a pre-hook whose onPreExecute rejects is reported by runPreHooks as
\* a blocked result; runPreHooks never throws, so a call whose pre-phase is
\* over has a blocked result and no tool run, or a result that is not
\* blocked.
C24_RejectionReportedAsBlocked ==
    \A a \in Tasks :
        /\ pc[a] \in {"idle", "pre", "modal", "exec", "post", "done"}
        /\ "pre:rejected" \in ioLog[a]
              => /\ pc[a] = "done"
                 /\ preResult[a].blocked
                 /\ ~execLog[a].executed

----------------------------------------------------------------------------
(* The ledger under two tasks *)

\* a line of the ledger that is one whole trace entry
IsTraceLine(line) ==
    /\ DOMAIN line = {"vcs", "files"}
    /\ Len(line.files) = 1
    /\ Len(line.files[1].conversations) = 1
    /\ Len(line.files[1].conversations[1].ranges) = 1
    /\ Len(line.files[1].conversations[1].related) >= 1

\* C25: the trace ledger is append-only under any interleaving of tasks:
\* every step leaves it as it is or adds exactly one whole line at its end,
\* so its content at any time is a prefix of its content at any later time.
C25_LedgerAppendOnly ==
    [][\/ ledger' = ledger
       \/ /\ Len(ledger') = Len(ledger) + 1
          /\ SubSeq(ledger', 1, Len(ledger)) = ledger
          /\ IsTraceLine(ledger'[Len(ledger')])]_vars

\* both tasks have appended, t1's line after t2's
C25_Witness ==
    /\ Len(ledger) = 2
    /\ ledger[1].files[1].conversations[1].url = "t2"
    /\ ledger[2].files[1].conversations[1].url = "t1"
    /\ \A a \in Tasks : "trace:append" \in ioLog[a]

----------------------------------------------------------------------------
(* Who sets the active intent *)

\* the call is a selection of an intent the registry holds and can be
\* parsed to show
SelectionFinds(blk, reg) ==
    /\ blk.name = "select_active_intent"
    /\ TruthyId(blk.params.intent_id)
    /\ reg.exists
    /\ reg.parses
    /\ \E i \in DOMAIN reg.intents : reg.intents[i].id = Get(blk.params.intent_id)

\* C26: a task's active intent changes only through a successful
\* select_active_intent: the tool sets it to intent_id exactly when the
\* registry is read and parsed and holds intent_id, and leaves it as it is
\* on every error path; no hook and no other tool assigns it.
C26_OnlySelectionSetsActiveIntent ==
    /\ [](\A a \in Tasks : \A readOk \in BOOLEAN :
            pc[a] = "exec" /\ currentBlock[a].name = "select_active_intent"
            => SelectActiveIntentTool_execute(activeIntentId[a], currentBlock[a],
                                              registry, readOk)
               = IF readOk /\ SelectionFinds(currentBlock[a], registry)
                 THEN Get(currentBlock[a].params.intent_id)
                 ELSE activeIntentId[a])
    /\ [][\A a \in Tasks :
            activeIntentId'[a] # activeIntentId[a]
            => /\ pc[a] = "exec"
               /\ pc'[a] = "post"
               /\ SelectionFinds(currentBlock[a], registry)
               /\ activeIntentId'[a] = Get(currentBlock[a].params.intent_id)]_vars

\* an intent is active, and a selection that cannot succeed (unknown id,
\* missing or corrupt registry) has run and left it active
C26_Witness ==
    /\ pc["t1"] = "post"
    /\ execLog["t1"].executed
    /\ currentBlock["t1"].name = "select_active_intent"
    /\ ~SelectionFinds(currentBlock["t1"], registry)
    /\ TruthyId(currentBlock["t1"].params.intent_id)
    /\ activeIntentId["t1"] = Int1

----------------------------------------------------------------------------
(* The trace history of a selection *)

\* one task that selects an intent, writes under it and selects again
HistoryCalls ==
    {Call("select_active_intent", [NoParams EXCEPT !.intent_id = Some(i)]) :
        i \in {Int1, Int2}}
    \cup {Call("write_to_file", [NoParams EXCEPT !.path = Some(AF), !.content = Some(CY),
                                                 !.intent_id = i]) :
            i \in {None, Some(Int2)}}

HistoryBudget == [a \in Tasks |-> IF a = "t1" THEN MaxCalls + 1 ELSE 0]

InitHistory ==
    InitWith(HistoryCalls, {FilesOf(CX, Absent)}, {CanonicalRegistry},
             {NoIgnoreFile}, HistoryBudget)

SpecHistory == InitHistory /\ [][Next]_vars

\* the entry has a related item whose value is the intent
References(entry, intentId) ==
    \E f \in DOMAIN entry.files :
        \E c \in DOMAIN entry.files[f].conversations :
            \E r \in DOMAIN entry.files[f].conversations[c].related :
                entry.files[f].conversations[c].related[r].value = intentId

\* C27: the trace history select_active_intent returns for intent I holds
\* only ledger entries that reference I, that is, with a related item whose
\* value is I; entries recorded under another intent are left out.
C27_HistoryOnlyOfSelectedIntent ==
    \A a \in Tasks :
        execLog[a].executed /\ currentBlock[a].name = "select_active_intent"
        => \A i \in DOMAIN execLog[a].history :
              References(execLog[a].history[i], Get(currentBlock[a].params.intent_id))

----------------------------------------------------------------------------
(* The pure helpers, called on their own *)

kernelVars == <<hooks, regLog, files, registry, ledger, ignoreFile,
                intentIgnoreCache, intentIgnorePath, activeIntentId, pc, block,
                currentBlock, hookIdx, preResult, callsLeft, toolCalls, trail,
                ioLog, execLog, postTrail>>

\* the engine at rest, and a helper about to be called with the arguments of
\* one of the evaluations
InitPure(evaluations) ==
    /\ InitKernel(initializeHooks(<<>>, 0), NewHooks(CanonicalHooks, 0), {},
                  {FilesOf(Absent, Absent)}, {CanonicalRegistry}, {NoIgnoreFile},
                  [a \in Tasks |-> 0])
    /\ workspace = [current |-> WorkspaceRoot, ignore |-> <<>>]
    /\ loadFrame = [a \in Tasks |-> NoFrame]
    /\ cacheGhost = NoCacheGhost
    /\ evaluated \in evaluations
    /\ claudeMd = None
    /\ lessonLog = NoLessons
    /\ updateData = NoUpdateData

\* the sequences over S of length up to n
SeqsUpTo(S, n) == UNION {[1..k -> S] : k \in 0..n}

MaxPathLen == 3
MaxPatternLen == 3

\* a/b/c/d, a/b/c
PathABCD == <<"a", "/", "b", "/", "c", "/", "d">>
PathABC == <<"a", "/", "b", "/", "c">>

ScopePaths == SeqsUpTo({"a", "b", "/"}, MaxPathLen) \cup {PathABCD, PathABC}

ScopePatterns == SeqsUpTo({"a", "/", "*", "?"}, MaxPatternLen) \cup {ScopeAll}

ScopeEvaluations ==
    [fn : {"matchesScope"}, filePath : ScopePaths, pattern : ScopePatterns,
     result : {None}, threw : {FALSE}]

\* matchesScope(filePath, pattern) returns or throws
Call_matchesScope ==
    /\ evaluated.fn = "matchesScope"
    /\ evaluated.result = None /\ ~evaluated.threw
    /\ evaluated' =
          IF matchesScope_throws(evaluated.filePath, evaluated.pattern)
          THEN [evaluated EXCEPT !.threw = TRUE]
          ELSE [evaluated EXCEPT
                   !.result = Some(matchesScope(evaluated.filePath, evaluated.pattern))]
    /\ UNCHANGED <<kernelVars, authVars, lessonVars, updateVars>>

InitMatch == InitPure(ScopeEvaluations)

SpecMatch == InitMatch /\ [][Call_matchesScope]_vars

RECURSIVE GlobFullMatch(_, _)
\* the pattern, "**" standing for any substring, "*" for any run of
\* characters other than "/" and every other character for itself, matches
\* the whole of s
GlobFullMatch(p, s) ==
    IF p = <<>> THEN s = <<>>
    ELSE IF Len(p) >= 2 /\ p[1] = "*" /\ p[2] = "*"
         THEN \E k \in 0..Len(s) : GlobFullMatch(Drop(p, 2), Drop(s, k))
    ELSE IF p[1] = "*"
         THEN \E k \in 0..Len(s) :
                 /\ \A i \in 1..k : s[i] # "/"
                 /\ GlobFullMatch(Tail(p), Drop(s, k))
    ELSE /\ s # <<>>
         /\ s[1] = p[1]
         /\ GlobFullMatch(Tail(p), Tail(s))

\* the pattern with "/" appended when it does not end in one
AsDirectory(p) == IF p # <<>> /\ p[Len(p)] = "/" THEN p ELSE p \o <<"/">>

\* C28: matchesScope(path, pattern) is true if and only if the strings are
\* equal, or the pattern compiled with "**" as any substring and "*" as any
\* run of non-"/" characters fully matches the path, or the pattern with "/"
\* appended when absent is a prefix of the path (so a/** matches a/b/c/d,
\* a/* matches a/b but not a/b/c, a/ matches every path under a/).
C28_MatchesScopeIff ==
    evaluated.fn = "matchesScope" /\ (IsSome(evaluated.result) \/ evaluated.threw)
    => /\ ~evaluated.threw
       /\ evaluated.result =
             Some(\/ evaluated.filePath = evaluated.pattern
                  \/ GlobFullMatch(evaluated.pattern, evaluated.filePath)
                  \/ StartsWith(evaluated.filePath, AsDirectory(evaluated.pattern)))

MaxLines == 3

\* lines that carry each refactor signal, some of the evolution signals, or
\* none
MutationLines ==
    {"+const a = 1", "", "+import a", "+// c", "+function f(", "+if (c) {",
     "+class C", "x"}

MutationContents == UNION {[1..k -> MutationLines] : k \in 1..MaxLines}

\* explicitClass: undefined or null, the two classes, or another string
MutationEvaluations ==
    [fn : {"classifyMutation"},
     explicitClass : {None, Some("AST_REFACTOR"), Some("INTENT_EVOLUTION"),
                      Some("REFACTOR")},
     content : MutationContents,
     isNewFile : BOOLEAN,
     result : {None}, threw : {FALSE}]

\* classifyMutation({ explicitClass, content, isNewFile }) returns
Call_classifyMutation ==
    /\ evaluated.fn = "classifyMutation"
    /\ evaluated.result = None
    /\ evaluated' = [evaluated EXCEPT
          !.result = Some(classifyMutation(evaluated.explicitClass,
                                           evaluated.content, evaluated.isNewFile))]
    /\ UNCHANGED <<kernelVars, authVars, lessonVars, updateVars>>

InitMutation == InitPure(MutationEvaluations)

SpecMutation == InitMutation /\ [][Call_classifyMutation]_vars

\* some line of the content carries the signal
SignalIn(signal, content) == \E k \in DOMAIN content : content[k] \in signal

\* two different refactor signals are in the content
TwoRefactorSignals(content) ==
    \E i, j \in DOMAIN REFACTOR_PATTERNS :
        /\ i # j
        /\ SignalIn(REFACTOR_PATTERNS[i], content)
        /\ SignalIn(REFACTOR_PATTERNS[j], content)

ToolNames ==
    LET known == SAFE_TOOLS \cup DESTRUCTIVE_TOOLS
    IN known
       \cup {n \o "s" : n \in known}
       \cup {"_" \o n : n \in known}
       \cup {"", "some_made_up_tool", "constructor", "toString", "has",
             "__proto__", "READ_FILE", "write", "read_file\n"}

CommandEvaluations ==
    [fn : {"classifyCommand"}, toolName : ToolNames, result : {None}, threw : {FALSE}]

\* classifyCommand(toolName) returns
Call_classifyCommand ==
    /\ evaluated.fn = "classifyCommand"
    /\ evaluated.result = None
    /\ evaluated' = [evaluated EXCEPT
                        !.result = Some(classifyCommand(evaluated.toolName))]
    /\ UNCHANGED <<kernelVars, authVars, lessonVars, updateVars>>

InitCommand == InitPure(CommandEvaluations)

SpecCommand == InitCommand /\ [][Call_classifyCommand]_vars

\* C30: classifyCommand is total and consistent with its two static sets:
\* SAFE for every name in SAFE_TOOLS, DESTRUCTIVE for every name in
\* DESTRUCTIVE_TOOLS, UNKNOWN for every other string; the two sets are
\* disjoint.
C30_ClassifyCommandTotal ==
    /\ SAFE_TOOLS \cap DESTRUCTIVE_TOOLS = {}
    /\ evaluated.fn = "classifyCommand"
       => /\ ENABLED Call_classifyCommand \/ IsSome(evaluated.result)
          /\ IsSome(evaluated.result)
             => /\ evaluated.toolName \in SAFE_TOOLS
                   => evaluated.result = Some("SAFE")
                /\ evaluated.toolName \in DESTRUCTIVE_TOOLS
                   => evaluated.result = Some("DESTRUCTIVE")
                /\ evaluated.toolName \notin SAFE_TOOLS \cup DESTRUCTIVE_TOOLS
                   => evaluated.result = Some("UNKNOWN")

\* a name in neither set has been classified
C30_Witness ==
    /\ evaluated.fn = "classifyCommand"
    /\ evaluated.toolName = "some_made_up_tool"
    /\ evaluated.result = Some("UNKNOWN")

----------------------------------------------------------------------------
(* The rejection payload as text *)

\* the keys of the object literal of buildRejectionError, in its order
RejectionKeys == <<"error", "code", "tool", "intent_id", "message", "recovery_hint">>

\* JSON.stringify(obj, null, 2): the members of the text, in order; a member
\* whose value is undefined is left out (message and recovery_hint are
\* template records in the model, not strings, and never undefined)
JSON_stringify(obj, keys) ==
    LET IsDefined(member) ==
            member[1] \in {"message", "recovery_hint"} \/ member[2] # Undefined
    IN SelectSeq([i \in DOMAIN keys |-> <<keys[i], obj[keys[i]]>>], IsDefined)

\* JSON.parse(text): the object with the members of the text
JSON_parse(text) ==
    [k \in {text[i][1] : i \in DOMAIN text} |->
        text[CHOOSE i \in DOMAIN text : text[i][1] = k][2]]

\* codes, messages, tools, ids (omitted, empty, an intent) and hints
\* (omitted, empty, the caller's)
RejectionEvaluations ==
    [fn : {"buildRejectionError"},
     code : {"SCOPE_VIOLATION", "X", ""},
     message : {[tpl |-> "msg"], [tpl |-> ""]},
     toolName : {"write_to_file", "edit", ""},
     intentId : {Undefined, "", Int1},
     recoveryHint : {None, Some([tpl |-> ""]), Some([tpl |-> "My custom hint"])},
     result : {None}, threw : {FALSE}]

\* buildRejectionError(params) returns the text
Call_buildRejectionError ==
    /\ evaluated.fn = "buildRejectionError"
    /\ evaluated.result = None
    /\ evaluated' = [evaluated EXCEPT
          !.result = Some(JSON_stringify(
                buildRejectionError(evaluated.code, evaluated.message,
                                    evaluated.toolName, evaluated.intentId,
                                    evaluated.recoveryHint),
                RejectionKeys))]
    /\ UNCHANGED <<kernelVars, authVars, lessonVars, updateVars>>

InitRejection == InitPure(RejectionEvaluations)

SpecRejection == InitRejection /\ [][Call_buildRejectionError]_vars

\* C31: for every input, buildRejectionError returns a JSON object with
\* exactly the fields error = "TOOL_REJECTED", code, tool, intent_id, message
\* and recovery_hint; intent_id is the supplied id or null when omitted;
\* recovery_hint is the caller's hint verbatim when supplied and the fixed
\* default hint otherwise.
C31_RejectionPayloadShape ==
    evaluated.fn = "buildRejectionError" /\ IsSome(evaluated.result)
    => LET parsed == JSON_parse(Get(evaluated.result))
       IN /\ DOMAIN parsed = {"error", "code", "tool", "intent_id", "message",
                              "recovery_hint"}
          /\ Len(Get(evaluated.result)) = 6
          /\ parsed.error = "TOOL_REJECTED"
          /\ parsed.code = evaluated.code
          /\ parsed.tool = evaluated.toolName
          /\ parsed.message = evaluated.message
          /\ parsed.intent_id = IF evaluated.intentId = Undefined THEN JsonNull
                                ELSE evaluated.intentId
          /\ parsed.recovery_hint =
                IF evaluated.recoveryHint = None
                THEN [tpl |-> "Please try a different approach that does not require this action, ask the user for guidance, or request scope expansion via select_active_intent."]
                ELSE evaluated.recoveryHint[1]

\* a payload built with a hint of the caller's and no intent id
C31_Witness ==
    /\ evaluated.fn = "buildRejectionError"
    /\ IsSome(evaluated.result)
    /\ evaluated.intentId = Undefined
    /\ evaluated.recoveryHint = Some([tpl |-> "My custom hint"])
    /\ JSON_parse(Get(evaluated.result)).recovery_hint = [tpl |-> "My custom hint"]
    /\ JSON_parse(Get(evaluated.result)).intent_id = JsonNull

----------------------------------------------------------------------------
(* RecordLessonTool *)

\* Texts are sequences of tokens: the line break, the section header, the
\* replacement patterns of String.prototype.replace, and other pieces of text.
NL == "\n"
LESSONS_SECTION_HEADER == "## Lessons Learned"

\* the content a missing CLAUDE.md is started with
BootstrapContent ==
    <<"# CLAUDE.md - Project Intelligence", NL, NL,
      "This file is maintained by AI agents to record lessons and project conventions.",
      NL, NL>>

\* TRIGGER_LABELS[trigger] ?? trigger
TriggerLabel(trigger) ==
    IF trigger = "test_failure" THEN "Test Failure"
    ELSE IF trigger = "lint_failure" THEN "Lint Failure"
    ELSE IF trigger = "agent_correction" THEN "Agent Correction"
    ELSE IF trigger = "user_feedback" THEN "User Feedback"
    ELSE trigger

\* `- [${timestamp}] [${triggerLabel}] ${lesson.trim()}`
BulletOf(lesson, trigger) ==
    <<"- [", "2026-01-01", "] [", TriggerLabel(trigger), "] ">> \o Trim(lesson)

RECURSIVE ExpandReplacement(_, _, _, _)
\* the replacement string as String.prototype.replace inserts it: $& is the
\* matched text, $` the text before the match, $' the text after it, $$ a
\* dollar sign; everything else stands for itself
ExpandReplacement(replacement, before, matched, after) ==
    IF replacement = <<>> THEN <<>>
    ELSE (IF Head(replacement) = "$&" THEN matched
          ELSE IF Head(replacement) = "$`" THEN before
          ELSE IF Head(replacement) = "$'" THEN after
          ELSE IF Head(replacement) = "$$" THEN <<"$">>
          ELSE <<Head(replacement)>>)
         \o ExpandReplacement(Tail(replacement), before, matched, after)

\* content.replace(pattern, replacement) for a string pattern: the first
\* occurrence is replaced
StringReplace(content, pattern, replacement) ==
    IF \A i \in DOMAIN content : content[i] # pattern THEN content
    ELSE LET i == CHOOSE k \in DOMAIN content :
                     /\ content[k] = pattern
                     /\ \A j \in 1..(k - 1) : content[j] # pattern
             before == SubSeq(content, 1, i - 1)
             after == SubSeq(content, i + 1, Len(content))
         IN before \o ExpandReplacement(replacement, before, <<pattern>>, after)
                   \o after

\* content.endsWith(suffix)
EndsWith(content, suffix) ==
    /\ Len(suffix) <= Len(content)
    /\ SubSeq(content, Len(content) - Len(suffix) + 1, Len(content)) = suffix

\* lines 64-71: the content with the bullet put under the header, or with
\* the section added at the end
WithLesson(content, bullet) ==
    IF \E i \in DOMAIN content : content[i] = LESSONS_SECTION_HEADER
    THEN StringReplace(content, LESSONS_SECTION_HEADER,
                       <<LESSONS_SECTION_HEADER, NL>> \o bullet)
    ELSE LET separator == IF EndsWith(content, <<NL, NL>>) THEN <<>>
                          ELSE IF EndsWith(content, <<NL>>) THEN <<NL>>
                          ELSE <<NL, NL>>
         IN content \o separator \o <<LESSONS_SECTION_HEADER, NL>> \o bullet \o <<NL>>

\* RecordLessonTool.execute: the file afterwards, what the callbacks got
\* ("pushed" for pushToolResult, "error" for handleError) and the file
\* operation it ended with.
\* readOk, writeOk: whether fs.readFile / fs.writeFile succeed
RecordLessonTool_execute(file, lesson, trigger, readOk, writeOk) ==
    IF lesson = <<>> \/ Trim(lesson) = <<>>
    THEN [file |-> file, outcome |-> "error", io |-> "none"]
    ELSE IF IsSome(file) /\ ~readOk
    THEN [file |-> file, outcome |-> "error", io |-> "readFailed"]
    ELSE LET content == IF IsSome(file) THEN Get(file) ELSE BootstrapContent
             written == WithLesson(content, BulletOf(lesson, trigger))
         IN IF writeOk
            THEN [file |-> Some(written), outcome |-> "pushed", io |-> "wrote"]
            ELSE [file |-> file, outcome |-> "error", io |-> "writeFailed"]

MaxLessonCalls == 2

\* lessons: plain, padded, blank, empty, and with text that replace() reads
\* as a pattern (a quoted regular expression ending in $, an amount in $$)
Lessons ==
    {<<"a">>, <<" ", "b", " ">>, <<" ">>, <<>>,
     <<"match ", "'^a", "$'">>, <<"costs ", "$$", "5">>, <<"use ", "$&">>}

Triggers == {"test_failure", "user_feedback"}

\* CLAUDE.md absent, empty, without the section (with and without a final
\* line break) and with it
LessonFiles ==
    {None, Some(<<>>), Some(<<"x">>), Some(<<"x", NL>>),
     Some(<<"# T", NL, NL, LESSONS_SECTION_HEADER, NL, "- old", NL>>),
     Some(<<"# T", NL, LESSONS_SECTION_HEADER>>)}

\* one call of the record_lesson tool
RecordLesson(lesson, trigger, readOk, writeOk) ==
    /\ lessonLog.calls < MaxLessonCalls
    /\ LET r == RecordLessonTool_execute(claudeMd, lesson, trigger, readOk, writeOk)
       IN /\ claudeMd' = r.file
          /\ lessonLog' =
                [lessonLog EXCEPT
                    !.calls = @ + 1,
                    !.recorded = IF r.outcome = "pushed"
                                 THEN Append(@, [lesson |-> lesson, trigger |-> trigger])
                                 ELSE @,
                    !.last = Some([lesson |-> lesson, outcome |-> r.outcome,
                                   io |-> r.io])]
    /\ UNCHANGED <<kernelVars, authVars, evaluated, updateVars>>

NextLessons ==
    \E lesson \in Lessons, trigger \in Triggers, readOk \in BOOLEAN, writeOk \in BOOLEAN :
        RecordLesson(lesson, trigger, readOk, writeOk)

InitLessons ==
    /\ InitKernel(initializeHooks(<<>>, 0), NewHooks(CanonicalHooks, 0), {},
                  {FilesOf(Absent, Absent)}, {CanonicalRegistry}, {NoIgnoreFile},
                  [a \in Tasks |-> 0])
    /\ workspace = [current |-> WorkspaceRoot, ignore |-> <<>>]
    /\ loadFrame = [a \in Tasks |-> NoFrame]
    /\ cacheGhost = NoCacheGhost
    /\ evaluated = NoEvaluation
    /\ claudeMd \in LessonFiles
    /\ lessonLog = [NoLessons EXCEPT !.original = claudeMd]
    /\ updateData = NoUpdateData

SpecLessons == InitLessons /\ [][NextLessons]_vars

RECURSIVE LinesOf(_)
\* the set of the lines of a text
LinesOf(content) ==
    IF \A i \in DOMAIN content : content[i] # NL THEN {content}
    ELSE LET i == CHOOSE k \in DOMAIN content :
                     content[k] = NL /\ \A j \in 1..(k - 1) : content[j] # NL
         IN {SubSeq(content, 1, i - 1)}
            \cup LinesOf(SubSeq(content, i + 1, Len(content)))

\* the number of places where the text has the section header
HeaderCount(content) ==
    Cardinality({i \in DOMAIN content : content[i] = LESSONS_SECTION_HEADER})

\* the lesson is blank
IsBlank(lesson) == \A i \in DOMAIN lesson : lesson[i] = " "

\* C32: after any sequence of record_lesson calls with non-blank lessons,
\* starting from an absent CLAUDE.md or one with at most one "## Lessons
\* Learned" header, CLAUDE.md has exactly one such header, a bullet for
\* every lesson recorded so far and all the content it had before; a call
\* with a blank lesson reports an error and writes nothing; a failed write
\* reports an error and pushes no success result.
C32_LessonsKept ==
    /\ [](lessonLog.recorded # <<>>
          => /\ IsSome(claudeMd)
             /\ HeaderCount(Get(claudeMd)) = 1
             /\ \A i \in DOMAIN lessonLog.recorded :
                   <<"- [", "2026-01-01", "] [",
                     TriggerLabel(lessonLog.recorded[i].trigger), "] ">>
                   \o Trim(lessonLog.recorded[i].lesson) \in LinesOf(Get(claudeMd))
             /\ IsSome(lessonLog.original)
                => \A line \in LinesOf(Get(lessonLog.original)) :
                      line \in LinesOf(Get(claudeMd)))
    /\ [][lessonLog'.calls = lessonLog.calls + 1
          => LET last == Get(lessonLog'.last)
             IN /\ IsBlank(last.lesson)
                   => last.outcome = "error" /\ claudeMd' = claudeMd
                /\ last.io = "writeFailed"
                   => last.outcome = "error" /\ lessonLog'.recorded = lessonLog.recorded]_vars

----------------------------------------------------------------------------
(* The order of the pipeline *)

\* the modal has been presented for task a's current call
ModalShown(a) == pc[a] = "modal" \/ "auth:modal" \in ioLog[a]

\* C33: with the canonical pipeline the approval modal is never presented
\* for a tool call that the Gatekeeper, the Optimistic Lock hook or the
\* Scope Enforcement hook blocks: the modal is shown only after all three
\* earlier pre-hooks have passed.
C33_ModalAfterChecks ==
    \A a \in Tasks :
        /\ ModalShown(a)
           => /\ Len(trail[a]) >= 3
              /\ SubSeq(TrailHooks(a), 1, 3) = <<GatekeeperId, LockId, ScopeId>>
              /\ \A k \in 1..3 : ~trail[a][k].result.blocked
        /\ (\E k \in DOMAIN trail[a] :
               /\ trail[a][k].hook \in {GatekeeperId, LockId, ScopeId}
               /\ trail[a][k].result.blocked)
           => ~ModalShown(a)

\* the modal is up for a write that the three earlier hooks let through,
\* the lock hook having compared a supplied hash
C33_Witness ==
    /\ pc["t1"] = "modal"
    /\ Len(trail["t1"]) = 3
    /\ currentBlock["t1"].name = "write_to_file"
    /\ "lock:readFile" \in ioLog["t1"]
    /\ activeIntentId["t1"] = Int1

----------------------------------------------------------------------------
(* What each phase writes *)

\* the engine has moved on task a's call in this step
EngineStepOf(a) ==
    \/ pc'[a] # pc[a]
    \/ hookIdx'[a] # hookIdx[a]
    \/ trail'[a] # trail[a]

PostPhaseIo ==
    {"update:exists", "update:readRegistry", "update:readFailed",
     "update:writeRegistry", "update:writeFailed",
     "trace:append", "trace:appendFailed"}

\* C35: a tool call that a pre-hook blocks goes straight to Done with that
\* hook's rejection payload: the blocking step changes neither the
\* registry, the ledger nor a workspace file, and once blocked the call has
\* not executed its tool, has run no post-hook and has made none of the
\* file operations of the post-phase; its only continuation is the next call.
C35_BlockedGoesToDone ==
    /\ [](\A a \in Tasks :
            preResult[a].blocked
            => /\ pc[a] = "done"
               /\ trail[a] # <<>>
               /\ trail[a][Len(trail[a])].result.blocked
               /\ preResult[a].errorMessage = trail[a][Len(trail[a])].result.errorMessage
               /\ preResult[a].errorMessage # NoError
               /\ ~execLog[a].executed
               /\ postTrail[a] = <<>>
               /\ ioLog[a] \cap PostPhaseIo = {})
    /\ [][\A a \in Tasks :
            ~preResult[a].blocked /\ preResult'[a].blocked
            => /\ pc'[a] = "done"
               /\ registry' = registry
               /\ ledger' = ledger
               /\ files' = files
               /\ activeIntentId' = activeIntentId]_vars

\* a write under an active intent was rejected in the modal, the fourth
\* hook: the call is done and the ledger is still empty
C35_Witness ==
    /\ preResult["t1"].blocked
    /\ currentBlock["t1"].name = "write_to_file"
    /\ "auth:rejected" \in ioLog["t1"]
    /\ Len(trail["t1"]) = 4
    /\ activeIntentId["t1"] = Int1
    /\ ledger = <<>>

----------------------------------------------------------------------------
(* Termination of an invocation *)

\* ?/f, written as a shell glob for "f in a one-letter directory"
ScopeQuestion == <<"?", "/", "f">>

\* INT-001 owns a/**, INT-002 owns ?/f
QuestionRegistry ==
    RegistryOf(<<Intent(Int1, Some(<<ScopeAll>>)), Intent(Int2, Some(<<ScopeQuestion>>))>>)

TerminationCalls ==
    {Call("select_active_intent", [NoParams EXCEPT !.intent_id = Some(i)]) :
        i \in {Int1, Int2}}
    \cup {Call("write_to_file", [NoParams EXCEPT !.path = Some(p), !.content = Some(CY)]) :
            p \in {AF, PF}}
    \cup {Call("read_file", [NoParams EXCEPT !.path = Some(AF)])}

InitTermination ==
    InitWith(TerminationCalls, {FilesOf(CX, Absent)},
             {CanonicalRegistry, QuestionRegistry}, {NoIgnoreFile}, OneTask)

\* every file operation and the modal return: a call that is in a phase
\* takes the next step of that phase. ToolExec(a) and RunPostHook(a) are
\* enabled exactly when pc[a] is "exec" and "post", and their weak fairness
\* is written with that guard: []<>~ENABLED <<A>>_vars \/ []<><<A>>_vars
EngineFairness ==
    \A a \in Tasks :
        /\ WF_vars(RunPreHook(a))
        /\ WF_vars(\E choice \in ModalChoices : ModalRespond(a, choice))
        /\ []<>(pc[a] # "exec") \/ []<><<ToolExec(a)>>_vars
        /\ []<>(pc[a] # "post") \/ []<><<RunPostHook(a)>>_vars

SpecTermination == InitTermination /\ [][Next]_vars /\ EngineFairness

\* no element occurs twice in the sequence
NoRepeat(seq) == \A i, j \in DOMAIN seq : seq[i] = seq[j] => i = j

\* C36: every tool invocation eventually reaches Done when each file
\* operation and the modal return: runPreHooks invokes each registered hook
\* at most once and then returns blocked or passed, runPostHooks invokes
\* each post handler exactly once and then returns, and no hook is invoked
\* twice for one invocation.
C36_InvocationTerminates ==
    /\ [](\A a \in Tasks :
            /\ NoRepeat(TrailHooks(a))
            /\ NoRepeat(PostTrailHooks(a))
            /\ pc[a] = "done" /\ ~preResult[a].blocked
               => PostTrailHooks(a) = PostHandlers(Len(hooks)))
    /\ \A a \in Tasks :
          (pc[a] \in {"pre", "modal", "exec", "post"}) ~> (pc[a] = "done")

----------------------------------------------------------------------------
(* A selection that fails *)

\* one task that selects an intent, writes or completes it and selects
\* again, with an id the registry holds, an id it does not hold, and no id
ReselectCalls ==
    {Call("select_active_intent", [NoParams EXCEPT !.intent_id = i]) :
        i \in {Some(Int1), Some(Int404), None}}
    \cup {Call("attempt_completion", NoParams),
          Call("write_to_file", [NoParams EXCEPT !.path = Some(AF), !.content = Some(CY)])}

InitReselect ==
    InitWith(ReselectCalls, {FilesOf(CX, Absent)}, {CanonicalRegistry},
             {NoIgnoreFile}, HistoryBudget)

SpecReselect == InitReselect /\ [][Next]_vars

\* the call is a selection that fails on a registry that can be read: its
\* intent_id is missing, or is not an id of the registry
FailedSelection(blk, reg) ==
    /\ blk.name = "select_active_intent"
    /\ reg.exists
    /\ reg.parses
    /\ \/ ~TruthyId(blk.params.intent_id)
       \/ \A i \in DOMAIN reg.intents : reg.intents[i].id # Get(blk.params.intent_id)

\* C37: a select_active_intent that fails (intent_id not in the registry, or
\* missing) leaves the registry file as it is in its post-phase: the Intent
\* Update hook changes no status, that of the previously active intent included.
C37_FailedSelectionKeepsRegistry ==
    [][\A a \in Tasks :
         PostHookRuns(a, IntentUpdateId) /\ FailedSelection(currentBlock[a], registry)
         => registry' = registry]_vars

----------------------------------------------------------------------------
(* Two post-phases on the registry file *)

\* IntentUpdateHook.onPostExecute of task a's call up to its await of
\* fs.writeFile: it reads and parses the registry and sets the status in the
\* parsed data, which it holds until the write; with nothing to write it
\* returns here
IntentUpdateReads(a) ==
    /\ pc[a] = "post"
    /\ hooks[hookIdx[a]].id = IntentUpdateId
    /\ updateData[a] = None
    /\ \E readOk \in BOOLEAN :
          LET upd == IntentUpdateHook_onPostExecute(activeIntentId[a], currentBlock[a],
                                                    registry, readOk, TRUE)
          IN IF upd.wrote
             THEN /\ updateData' = [updateData EXCEPT ![a] = Some(upd.registry)]
                  /\ ioLog' = [ioLog EXCEPT ![a] =
                                  @ \cup (upd.io \ {"update:writeRegistry"})]
                  /\ UNCHANGED <<pc, hookIdx, postTrail>>
             ELSE /\ ioLog' = [ioLog EXCEPT ![a] = @ \cup upd.io]
                  /\ postTrail' = [postTrail EXCEPT ![a] =
                                      Append(@, [hook |-> IntentUpdateId, threw |-> FALSE])]
                  /\ AfterPostHook(a, FALSE)
                  /\ UNCHANGED updateData
    /\ UNCHANGED <<authVars, evaluated, lessonVars>>
    /\ UNCHANGED <<hooks, regLog, files, registry, ledger, ignoreFile, intentIgnoreCache,
                   intentIgnorePath, activeIntentId, block, currentBlock, preResult,
                   callsLeft, toolCalls, trail, execLog>>

\* the rest of the hook: fs.writeFile of the whole file from the parsed data
IntentUpdateWrites(a) ==
    /\ pc[a] = "post"
    /\ hooks[hookIdx[a]].id = IntentUpdateId
    /\ updateData[a] # None
    /\ \E writeOk \in BOOLEAN :
          /\ registry' = IF writeOk THEN Get(updateData[a]) ELSE registry
          /\ ioLog' = [ioLog EXCEPT ![a] =
                          @ \cup {IF writeOk THEN "update:writeRegistry"
                                  ELSE "update:writeFailed"}]
    /\ updateData' = [updateData EXCEPT ![a] = None]
    /\ postTrail' = [postTrail EXCEPT ![a] =
                        Append(@, [hook |-> IntentUpdateId, threw |-> FALSE])]
    /\ AfterPostHook(a, FALSE)
    /\ UNCHANGED <<authVars, evaluated, lessonVars>>
    /\ UNCHANGED <<hooks, regLog, files, ledger, ignoreFile, intentIgnoreCache,
                   intentIgnorePath, activeIntentId, block, currentBlock, preResult,
                   callsLeft, toolCalls, trail, execLog>>

\* the post-hooks other than the Intent Update hook
OtherPostHook(a) ==
    /\ pc[a] = "post"
    /\ hooks[hookIdx[a]].id # IntentUpdateId
    /\ RunPostHook(a)

NextRace ==
    \/ \E a \in Tasks : Dispatch(a)
    \/ \E a \in Tasks : RunPreHook(a)
    \/ \E a \in Tasks : ToolExec(a)
    \/ \E a \in Tasks : OtherPostHook(a)
    \/ \E a \in Tasks : IntentUpdateReads(a)
    \/ \E a \in Tasks : IntentUpdateWrites(a)

\* two agents, each making one selection
RaceCalls ==
    {Call("select_active_intent", [NoParams EXCEPT !.intent_id = Some(i)]) :
        i \in {Int1, Int2}}

OneCallEach == [a \in Tasks |-> 1]

InitRace ==
    InitWith(RaceCalls, {FilesOf(CX, Absent)}, {CanonicalRegistry},
             {NoIgnoreFile}, OneCallEach)

SpecRace == InitRace /\ [][NextRace]_vars

\* C38: when the post-phases of two tasks have both written the status of
\* their, different, intents to the registry file, both changes are in the
\* file once both post-phases have completed, whatever the interleaving.
C38_BothUpdatesKept ==
    \A a, b \in Tasks :
        /\ a # b
        /\ pc[a] = "done" /\ pc[b] = "done"
        /\ "update:writeRegistry" \in ioLog[a]
        /\ "update:writeRegistry" \in ioLog[b]
        /\ activeIntentId[a] # activeIntentId[b]
        => /\ RegistryEntry(registry, activeIntentId[a])[1].status = "IN_PROGRESS"
           /\ RegistryEntry(registry, activeIntentId[b])[1].status = "IN_PROGRESS"

----------------------------------------------------------------------------
(* The target path of a write, hook by hook *)

\* writes whose native_args name the same path as params, another path, or
\* the only path; INT-001 owns a/** and p/f is outside it
PathCalls ==
    {Call("select_active_intent", [NoParams EXCEPT !.intent_id = Some(Int1)]),
     Call("write_to_file",
          WithPayload([NoParams EXCEPT !.path = Some(AF),
                                       !.expected_hash = Some(hashContent(CX))])),
     CallNative("write_to_file",
          WithPayload([NoParams EXCEPT !.path = Some(AF),
                                       !.expected_hash = Some(hashContent(CX))]),
          [NoNativeArgs EXCEPT !.path = Some(AF)]),
     CallNative("write_to_file",
          WithPayload([NoParams EXCEPT !.path = Some(AF),
                                       !.expected_hash = Some(hashContent(CX))]),
          [NoNativeArgs EXCEPT !.path = Some(PF)]),
     CallNative("write_to_file",
          WithPayload([NoParams EXCEPT !.expected_hash = Some(hashContent(CX))]),
          [NoNativeArgs EXCEPT !.path = Some(PF)])}

InitPaths ==
    InitWith(PathCalls, {FilesOf(CX, CX)}, {CanonicalRegistry}, {NoIgnoreFile}, OneTask)

SpecPaths == InitPaths /\ [][Next]_vars

\* the Scope Enforcement hook has let task a's write through under an
\* active intent
ScopePassed(a) ==
    /\ currentBlock[a].name \in writeTools
    /\ activeIntentId[a] # Undefined
    /\ \E k \in DOMAIN trail[a] :
          trail[a][k].hook = ScopeId /\ ~trail[a][k].result.blocked

\* the path the Scope Enforcement hook takes from the call, "" when none
ScopeJudgedPath(blk) ==
    IF IsSome(ScopeRawFilePath(blk)) THEN Get(ScopeRawFilePath(blk)) ELSE EmptyStr

\* C39: for a write-tool call the Optimistic Lock hook, the Scope
\* Enforcement hook and the Trace Writer hook evaluate the same target path,
\* also when native_args.path differs from params.path / file_path or is the
\* only path: a call that passed the scope check has been lock-checked and
\* traced only against the path the scope check judged.
C39_OneTargetPath ==
    \A a \in Tasks :
        ScopePassed(a)
        => /\ "lock:readFile" \in ioLog[a]
              => LockRawFilePath(currentBlock[a]) = ScopeJudgedPath(currentBlock[a])
           /\ "trace:append" \in ioLog[a]
              => TraceFilePath(currentBlock[a]) = ScopeJudgedPath(currentBlock[a])

----------------------------------------------------------------------------
(* Authorization of the side-effecting tools *)

\* C40: every call of a tool on the Gatekeeper's side-effect list
\* (insert_content and browser_action among them) that reaches execution
\* was authorized for its active intent: the human chose "Approve" in the
\* modal for that call, or the active intent is on the bypass list.
C40_SideEffectsAuthorized ==
    \A a \in Tasks :
        currentBlock[a].name \in sideEffectTools /\ execLog[a].executed
        => \/ "auth:approved" \in ioLog[a]
           \/ <<activeIntentId[a]>> \in FileBypassSet

=============================================================================
